---- MODULE Spec2Model ----
(***************************************************************************)
(* Crypto Insights Agent: the event producer (main.py), the cache-aside    *)
(* data access (agent_core.py), the protocol adapters (main.py,            *)
(* sentient_adapter.py) and the chat session engine (telegram_bot.py).     *)
(*                                                                         *)
(* Texts are sequences of pieces: a piece is a word or the whitespace      *)
(* piece " ".  Amounts (price, market cap, volume) are integers counted in *)
(* units of 1e-11, one digit finer than the NUMERIC(_, 10) columns that    *)
(* store them.  Time is counted in minutes.                                *)
(***************************************************************************)
EXTENDS Integers, Sequences, FiniteSets, TLC

VARIABLES
    now,            \* wall clock, minutes
    price_history,  \* table price_history: sequence of rows, id = index
    news_cache,     \* table news_cache: sequence of rows, id = index
    origin,         \* per price_history row: the payload its inserting call returned
    silent,         \* the peers that accept a call and never answer it
    pc,             \* per query slot: where stream_agent_response is suspended
    intent,         \* per slot: parsed_query["intent"]
    token,          \* per slot: parsed_query["token_id"]
    events,         \* per slot: the events yielded so far, in order
    conn,           \* per slot: the storage connection of the running cache call
    cur,            \* per slot: its cursor
    cached_result,  \* per slot: row id fetched by the SELECT, 0 if none
    api_data,       \* per slot: the fetcher's payload awaiting its INSERT
    fetched,        \* per slot: upstream fetches made for the current query
    started,        \* queries started so far
    yielded,        \* adapter: what its producer has yielded so far, item by item
    frames,         \* adapter: the SSE frames emitted so far
    apc,            \* adapter: "accepting", "refused", "running", "finished",
                    \*          "failed", or "crashed"
    body,           \* adapter: the body of the request to /assist
    prompt,         \* adapter: the prompt taken from it
    SESSIONS,       \* bot: chat id -> session (last_token, last_intent, history)
    bot_data,       \* bot: the application-wide full_token_list
    pages,          \* bot: chat id -> the pages shown in the chat's token list message
    user_message_raw, \* bot: the text of the message being handled
    user_message,   \* bot: the prompt built from it
    chat_id,        \* bot: the chat of the message being handled
    bpc,            \* bot: "idle", or "streaming" inside handle_message
    sessions_json,  \* bot: the sessions as sessions.json holds them, by key
    full_response,  \* bot: the accumulated block after each event of the turn
    status_message  \* bot: the edits made to the turn's message, in order

dbVars   == <<now, price_history, news_cache, origin, silent>>
slotVars == <<pc, intent, token, events, conn, cur, cached_result, api_data, fetched>>
vars     == <<now, price_history, news_cache, origin, silent,
              pc, intent, token, events, conn, cur, cached_result, api_data, fetched,
              started, yielded, frames, apc, body, prompt,
              SESSIONS, bot_data, pages, user_message_raw, user_message, chat_id, bpc,
              sessions_json, full_response, status_message>>
adapterVars == <<yielded, frames, apc, body, prompt>>
botVars == <<SESSIONS, bot_data, pages, user_message_raw, user_message, chat_id, bpc,
             sessions_json, full_response, status_message>>
producerVars == <<now, price_history, news_cache, origin, silent,
                  pc, intent, token, events, conn, cur, cached_result, api_data, fetched,
                  started>>

---------------------------------------------------------------------------
(* Bounds *)

MaxQueries == 2
MaxLines == 3

(* Python's None, as a number and as a string *)
None == -1
NoneStr == "<None>"

---------------------------------------------------------------------------
(* Text helpers *)

Lower(w) ==
    CASE w = "PRICE"   -> "price"
      [] w = "Price"   -> "price"
      [] w = "NEWS"    -> "news"
      [] w = "ETH"     -> "eth"
      [] w = "Bitcoin" -> "bitcoin"
      [] OTHER         -> w

LowerText(t) == [i \in 1..Len(t) |-> Lower(t[i])]

(* the characters str.strip() removes *)
Whitespace == {" ", "\n"}

RECURSIVE LStrip(_)
LStrip(t) == IF t # <<>> /\ Head(t) \in Whitespace THEN LStrip(Tail(t)) ELSE t

RECURSIVE RStrip(_)
RStrip(t) ==
    IF t # <<>> /\ t[Len(t)] \in Whitespace
    THEN RStrip(SubSeq(t, 1, Len(t) - 1))
    ELSE t

Strip(t) == RStrip(LStrip(t))

(* word-level substring relation: <<w, k>> when k occurs inside w *)
SubstringPairs == {<<"tokens", "token">>}

PieceContains(w, k) == w = k \/ <<w, k>> \in SubstringPairs

(* Python's  kw in text  for a keyword kw of one or more pieces *)
InText(kw, t) ==
    \E i \in 1..(Len(t) - Len(kw) + 1) :
        \A j \in 1..Len(kw) : PieceContains(t[i + j - 1], kw[j])

(* exact occurrence of the piece sequence s in t *)
Occurs(s, t) ==
    \E i \in 1..(Len(t) - Len(s) + 1) : SubSeq(t, i, i + Len(s) - 1) = s

Padded(t) == <<" ">> \o t \o <<" ">>

---------------------------------------------------------------------------
(* Intent Resolver: agent_core.parse_natural_language_query *)

WalletWords == {"0x52908400098527886e0f7030069857d2e4169ee7"}

FULL_TOKEN_LIST_DETAILED ==
    << [id |-> "bitcoin",    idw |-> <<"bitcoin">>,    name |-> <<"bitcoin">>,
        symbol |-> <<"btc">>],
       [id |-> "ethereum",   idw |-> <<"ethereum">>,   name |-> <<"ethereum">>,
        symbol |-> <<"eth">>],
       [id |-> "pi-network", idw |-> <<"pi-network">>, name |-> <<"pi", " ", "network">>,
        symbol |-> <<"pi">>] >>

TokenMatches(info, text_lower) ==
    \/ text_lower = info.idw \/ text_lower = info.name \/ text_lower = info.symbol
    \/ Occurs(Padded(info.name), Padded(text_lower))
    \/ Occurs(Padded(info.symbol), Padded(text_lower))
    \/ Occurs(Padded(info.idw), Padded(text_lower))

TokenFound(text_lower) ==
    LET hits == {i \in DOMAIN FULL_TOKEN_LIST_DETAILED :
                    TokenMatches(FULL_TOKEN_LIST_DETAILED[i], text_lower)}
    IN  IF hits = {} THEN NoneStr
        ELSE FULL_TOKEN_LIST_DETAILED[CHOOSE i \in hits : \A j \in hits : i <= j].id

parse_natural_language_query(text) ==
    LET text_lower == Strip(LowerText(text))
        wallets    == {i \in DOMAIN text_lower : text_lower[i] \in WalletWords}
    IN  IF wallets # {}
        THEN [intent |-> "GET_WALLET_INFO",
              token_id |-> text_lower[CHOOSE i \in wallets : \A j \in wallets : i <= j]]
        ELSE IF InText(<<"list">>, text_lower)
                \/ (InText(<<"show">>, text_lower) /\ InText(<<"token">>, text_lower))
        THEN [intent |-> "LIST_TOKENS", token_id |-> NoneStr]
        ELSE [intent |->
                IF InText(<<"price">>, text_lower)
                   \/ InText(<<"how", " ", "much">>, text_lower)
                   \/ InText(<<"cost">>, text_lower)
                THEN "GET_PRICE"
                ELSE IF InText(<<"news">>, text_lower)
                        \/ InText(<<"headlines">>, text_lower)
                        \/ InText(<<"latest">>, text_lower)
                THEN "GET_NEWS"
                ELSE "GET_OVERVIEW",
              token_id |-> TokenFound(text_lower)]

---------------------------------------------------------------------------
(* Fetcher boundary: what each upstream call can return *)

PayFull    == [price |-> 20,   market_cap |-> 500,  volume_24h |-> 300]
PayFine    == [price |-> 15,   market_cap |-> 500,  volume_24h |-> 300]
PayNoCap   == [price |-> 20,   market_cap |-> None, volume_24h |-> 300]
PayNoPrice == [price |-> None, market_cap |-> None, volume_24h |-> None]

PricePayloads == {PayFull, PayFine, PayNoCap, PayNoPrice}

(* agent_core.get_token_price_from_api: a payload, or an error dict *)
get_token_price_from_api(token_id) ==
    PricePayloads
    \cup {[error |-> "Could not find price data"], [error |-> "API request failed"]}

ArticleLists == { <<[title |-> "t1", url |-> "u1"]>> }

(* agent_core.get_news *)
get_news(query) ==
    {[articles |-> a] : a \in ArticleLists}
    \cup {[error |-> "NewsAPI key not found"], [error |-> "API request failed"]}

(* agent_core.get_wallet_info *)
get_wallet_info(address) ==
    { [address |-> address, eth_balance |-> "1.0000 ETH"],
      [error |-> "Etherscan API key not found."],
      [error |-> "Failed to fetch balance"],
      [error |-> "API request failed"] }

(* the ids of the market listing the upstream serves, best ranked first *)
TokenIds ==
    << "bitcoin", "ethereum", "pi-network", "t04", "t05", "t06", "t07", "t08", "t09",
       "t10", "t11", "t12", "t13", "t14", "t15", "t16", "t17", "t18", "t19",
       "t20", "t21", "t22", "t23", "t24", "t25", "t26", "t27", "t28", "t29",
       "t30", "t31", "t32", "t33", "t34", "t35", "t36", "t37", "t38", "t39",
       "t40", "t41", "t42", "t43", "t44", "t45" >>

ListSizes == {20, 21, 40, 45}

(* agent_core.get_token_list: the listing, or the one-entry error list *)
get_token_list ==
    { [i \in 1..n |-> [id |-> TokenIds[i], text |-> TokenIds[i]]] : n \in ListSizes }
    \cup { << [id |-> "", text |-> "Error fetching tokens"] >> }

IsError(d) == "error" \in DOMAIN d

(* the peers a query calls: requests.get(url) and psycopg2.connect(...) are made
   without a timeout, so a call returns only when its peer answers *)
Peers == {"coingecko", "newsapi", "etherscan", "postgres"}

Answers(peer) == peer \notin silent

---------------------------------------------------------------------------
(* Cache Store: tables price_history and news_cache *)

PriceWindow == 5
NewsWindow  == 60

(* a Python number written to a NUMERIC(_, 10) column: rounded to 10 places,
   half away from zero; None is stored as NULL *)
ToNumeric10(v) == IF v = None THEN None ELSE ((v + 5) \div 10) * 10

PriceRow(token_id, p, t) ==
    [token_id |-> token_id, price |-> ToNumeric10(p.price),
     market_cap |-> ToNumeric10(p.market_cap),
     volume_24h |-> ToNumeric10(p.volume_24h), fetched_at |-> t]

NewsRow(query, articles, t) == [query |-> query, articles |-> articles, fetched_at |-> t]

(* mutant: the boundary instant is excluded *)
PriceFreshIds_Exclusive(table, token_id, t) ==
    {i \in DOMAIN table :
        table[i].token_id = token_id /\ table[i].fetched_at > t - PriceWindow}

(* WHERE <key> = %s AND fetched_at >= %s *)
PriceFreshIds(table, token_id, t) ==
    {i \in DOMAIN table :
        table[i].token_id = token_id /\ table[i].fetched_at >= t - PriceWindow}

NewsFreshIds(table, query, t) ==
    {i \in DOMAIN table :
        table[i].query = query /\ table[i].fetched_at >= t - NewsWindow}

(* ORDER BY fetched_at DESC LIMIT 1: the candidates for the one row returned *)
LatestOf(table, ids) ==
    {i \in ids : \A j \in ids : table[j].fetched_at <= table[i].fetched_at}

(* float(cached_result[k]) for the three columns raises on a NULL *)
FloatFails(row) == row.price = None \/ row.market_cap = None \/ row.volume_24h = None

HitPayload(row) ==
    [price |-> row.price, market_cap |-> row.market_cap, volume_24h |-> row.volume_24h]

(* the INSERT violates price NUMERIC(20, 10) NOT NULL *)
InsertRejected(p) == p.price = None

---------------------------------------------------------------------------
(* Event Producer: main.stream_agent_response, one action per resumption of
   the generator; a cache call (get_smart_token_price, get_smart_news) is
   split at its storage and upstream calls *)

Slots == {1}

Questions ==
    { <<"bitcoin", " ", "price">>, <<"ETH", " ", "Price">>, <<"bitcoin", " ", "news">>,
      <<" ", "bitcoin", " ">>, <<"price">>, <<"hello">>, <<"list", " ", "tokens">>,
      <<"0x52908400098527886e0f7030069857d2e4169ee7">> }

Instants == {0, 1, 5, 6, 60, 61}

Event(event_name, data) == [event |-> event_name, data |-> data]

Yield(q, event_name, data, next) ==
    /\ events' = [events EXCEPT ![q] = Append(@, Event(event_name, data))]
    /\ pc' = [pc EXCEPT ![q] = next]

DoneText == "Stream finished."

(* lines 37-41: a question arrives at time t *)
Begin(q, question, t) ==
    /\ pc[q] \in {"idle", "returned"}
    /\ t >= now
    /\ now' = t
    /\ started' = started + 1
    /\ LET parsed_query == parse_natural_language_query(question)
       IN  /\ intent' = [intent EXCEPT ![q] = parsed_query.intent]
           /\ token' = [token EXCEPT ![q] = parsed_query.token_id]
           /\ events' = [events EXCEPT ![q] =
                 <<Event("intent_recognized",
                      [intent |-> parsed_query.intent, token |-> parsed_query.token_id])>>]
    /\ pc' = [pc EXCEPT ![q] = "y41"]
    /\ fetched' = [fetched EXCEPT ![q] = 0]
    /\ cached_result' = [cached_result EXCEPT ![q] = 0]
    /\ conn' = [conn EXCEPT ![q] = "none"]
    /\ cur' = [cur EXCEPT ![q] = "none"]
    /\ UNCHANGED <<price_history, news_cache, origin, silent, api_data>>

Start(q, question, t) == started < MaxQueries /\ Begin(q, question, t)

(* mutant: a price query goes on to the price step without a subject *)
Dispatch_NoSubjectCheck(q) ==
    /\ pc[q] = "y41"
    /\ \/ /\ intent[q] = "GET_WALLET_INFO"
          /\ Yield(q, "status_update", "Fetching info for wallet", "y46")
       \/ /\ intent[q] = "LIST_TOKENS"
          /\ Yield(q, "status_update", "Fetching full token list...", "y53")
       \/ /\ intent[q] = "GET_NEWS"
          /\ token[q] = NoneStr
          /\ Yield(q, "error", [message |-> "Sorry, I couldn't identify a cryptocurrency in your question."], "y60")
       \/ /\ intent[q] \in {"GET_PRICE", "GET_OVERVIEW"}
          /\ Yield(q, "status_update", "Fetching price", "y65")
       \/ /\ intent[q] = "GET_NEWS"
          /\ token[q] # NoneStr
          /\ Yield(q, "status_update", "Fetching news", "y72")
    /\ UNCHANGED <<dbVars, intent, token, conn, cur, cached_result, api_data, fetched, started>>

(* lines 44-46, 52-53, 59-60, 64-65, 71-72: the branch taken after the first event *)
Dispatch(q) ==
    /\ pc[q] = "y41"
    /\ \/ /\ intent[q] = "GET_WALLET_INFO"
          /\ Yield(q, "status_update", "Fetching info for wallet", "y46")
       \/ /\ intent[q] = "LIST_TOKENS"
          /\ Yield(q, "status_update", "Fetching full token list...", "y53")
       \/ /\ intent[q] \notin {"GET_WALLET_INFO", "LIST_TOKENS"}
          /\ token[q] = NoneStr
          /\ Yield(q, "error", [message |-> "Sorry, I couldn't identify a cryptocurrency in your question."], "y60")
       \/ /\ intent[q] \in {"GET_PRICE", "GET_OVERVIEW"}
          /\ token[q] # NoneStr
          /\ Yield(q, "status_update", "Fetching price", "y65")
       \/ /\ intent[q] = "GET_NEWS"
          /\ token[q] # NoneStr
          /\ Yield(q, "status_update", "Fetching news", "y72")
    /\ UNCHANGED <<dbVars, intent, token, conn, cur, cached_result, api_data, fetched, started>>

(* mutant: the wallet branch falls through to the price step *)
WalletResult_FallsThrough(q) ==
    /\ pc[q] = "y46"
    /\ Answers("etherscan")
    /\ \E wallet_data \in get_wallet_info(token[q]) :
          Yield(q, "wallet_info_result", wallet_data, "y65")
    /\ fetched' = [fetched EXCEPT ![q] = @ + 1]
    /\ UNCHANGED <<dbVars, intent, token, conn, cur, cached_result, api_data, started>>

(* lines 47-48 *)
WalletResult(q) ==
    /\ pc[q] = "y46"
    /\ Answers("etherscan")
    /\ \E wallet_data \in get_wallet_info(token[q]) :
          Yield(q, "wallet_info_result", wallet_data, "y48")
    /\ fetched' = [fetched EXCEPT ![q] = @ + 1]
    /\ UNCHANGED <<dbVars, intent, token, conn, cur, cached_result, api_data, started>>

(* lines 54-55 *)
TokenListResult(q) ==
    /\ pc[q] = "y53"
    /\ Answers("coingecko")
    /\ \E token_list \in get_token_list :
          Yield(q, "token_list_result", [tokens |-> token_list], "y55")
    /\ fetched' = [fetched EXCEPT ![q] = @ + 1]
    /\ UNCHANGED <<dbVars, intent, token, conn, cur, cached_result, api_data, started>>

(* lines 49, 56, 61: done after a short-circuit branch *)
Done49(q) ==
    /\ pc[q] = "y48"
    /\ Yield(q, "done", DoneText, "y49")
    /\ UNCHANGED <<dbVars, intent, token, conn, cur, cached_result, api_data, fetched, started>>

Done56(q) ==
    /\ pc[q] = "y55"
    /\ Yield(q, "done", DoneText, "y56")
    /\ UNCHANGED <<dbVars, intent, token, conn, cur, cached_result, api_data, fetched, started>>

Done61(q) ==
    /\ pc[q] = "y60"
    /\ Yield(q, "done", DoneText, "y61")
    /\ UNCHANGED <<dbVars, intent, token, conn, cur, cached_result, api_data, fetched, started>>

(* mutant: the wallet branch returns right after its result, without done *)
Return_BeforeDone(q) ==
    /\ pc[q] \in {"y48", "y49", "y56", "y61", "y78"}
    /\ pc' = [pc EXCEPT ![q] = "returned"]
    /\ UNCHANGED <<dbVars, intent, token, events, conn, cur, cached_result, api_data, fetched, started>>

(* lines 50, 57, 62 and the end of the generator after line 78 *)
Return(q) ==
    /\ pc[q] \in {"y49", "y56", "y61", "y78"}
    /\ pc' = [pc EXCEPT ![q] = "returned"]
    /\ UNCHANGED <<dbVars, intent, token, events, conn, cur, cached_result, api_data, fetched, started>>


Unset == [unset |-> TRUE]

DbConnFailed == [error |-> "Database connection failed."]
PriceDbError == [error |-> "An internal database error occurred."]
NewsDbError  == [error |-> "An internal database error occurred: e"]

(* mutant: the rows staged by the failed transaction stay visible *)
rollback_KeepsStaged(committed, staged) == staged

(* except Exception: conn.rollback(): what the transaction staged is discarded *)
rollback(committed, staged) == committed

(* mutant: only the cursor is closed *)
CloseDb_CursorOnly(q) ==
    /\ cur' = [cur EXCEPT ![q] = "closed"]
    /\ UNCHANGED conn

(* finally: cur.close(); conn.close() *)
CloseDb(q) ==
    /\ conn' = [conn EXCEPT ![q] = "closed"]
    /\ cur' = [cur EXCEPT ![q] = "closed"]

(* agent_core.py lines 38-43 (get_db_connection, lines 144-158), called from main.py line 66 *)
PriceConnect(q) ==
    /\ pc[q] = "y65"
    /\ Answers("postgres")
    /\ \/ /\ Yield(q, "error", DbConnFailed, "y68")
          /\ UNCHANGED <<conn, cur>>
       \/ /\ conn' = [conn EXCEPT ![q] = "open"]
          /\ cur' = [cur EXCEPT ![q] = "open"]
          /\ pc' = [pc EXCEPT ![q] = "p_lookup"]
          /\ UNCHANGED events
    /\ cached_result' = [cached_result EXCEPT ![q] = 0]
    /\ UNCHANGED <<dbVars, intent, token, api_data, fetched, started>>

(* mutant: a fresh row is selected, and the upstream is fetched all the same *)
PriceLookup_Refetch(q) ==
    /\ pc[q] = "p_lookup"
    /\ Answers("postgres")
    /\ LET fresh == PriceFreshIds(price_history, token[q], now)
       IN  \/ /\ Yield(q, "error", PriceDbError, "y68")
              /\ CloseDb(q)
              /\ UNCHANGED cached_result
           \/ /\ fresh = {}
              /\ pc' = [pc EXCEPT ![q] = "p_fetch"]
              /\ cached_result' = [cached_result EXCEPT ![q] = 0]
              /\ UNCHANGED <<events, conn, cur>>
           \/ \E r \in LatestOf(price_history, fresh) :
                /\ cached_result' = [cached_result EXCEPT ![q] = r]
                /\ pc' = [pc EXCEPT ![q] = "p_fetch"]
                /\ UNCHANGED <<events, conn, cur>>
    /\ UNCHANGED <<dbVars, intent, token, api_data, fetched, started>>

(* agent_core.py lines 46-64, and 78-86 on the hit and failure paths *)
PriceLookup(q) ==
    /\ pc[q] = "p_lookup"
    /\ Answers("postgres")
    /\ LET fresh == PriceFreshIds(price_history, token[q], now)
       IN  \/ /\ Yield(q, "error", PriceDbError, "y68")
              /\ CloseDb(q)
              /\ UNCHANGED cached_result
           \/ /\ fresh = {}
              /\ pc' = [pc EXCEPT ![q] = "p_fetch"]
              /\ cached_result' = [cached_result EXCEPT ![q] = 0]
              /\ UNCHANGED <<events, conn, cur>>
           \/ \E r \in LatestOf(price_history, fresh) :
                /\ cached_result' = [cached_result EXCEPT ![q] = r]
                /\ CloseDb(q)
                /\ IF FloatFails(price_history[r])
                   THEN Yield(q, "error", PriceDbError, "y68")
                   ELSE Yield(q, "price_result", HitPayload(price_history[r]), "y68")
    /\ UNCHANGED <<dbVars, intent, token, api_data, fetched, started>>

(* agent_core.py lines 65-67 *)
PriceFetch(q) ==
    /\ pc[q] = "p_fetch"
    /\ Answers("coingecko")
    /\ fetched' = [fetched EXCEPT ![q] = @ + 1]
    /\ \E api \in get_token_price_from_api(token[q]) :
          IF IsError(api)
          THEN /\ Yield(q, "error", api, "y68")
               /\ CloseDb(q)
               /\ UNCHANGED api_data
          ELSE /\ api_data' = [api_data EXCEPT ![q] = api]
               /\ pc' = [pc EXCEPT ![q] = "p_insert"]
               /\ UNCHANGED <<events, conn, cur>>
    /\ UNCHANGED <<dbVars, intent, token, cached_result, started>>

(* mutant: the table accepts one fresh row per token only *)
PriceInsert_UniqueKey(q) ==
    /\ pc[q] = "p_insert"
    /\ Answers("postgres")
    /\ CloseDb(q)
    /\ api_data' = [api_data EXCEPT ![q] = Unset]
    /\ \/ /\ Yield(q, "error", PriceDbError, "y68")
          /\ UNCHANGED <<price_history, origin>>
       \/ /\ ~InsertRejected(api_data[q])
          /\ PriceFreshIds(price_history, token[q], now) = {}
          /\ price_history' = Append(price_history, PriceRow(token[q], api_data[q], now))
          /\ origin' = Append(origin, api_data[q])
          /\ Yield(q, "price_result", api_data[q], "y68")
    /\ UNCHANGED <<now, news_cache, silent, intent, token, cached_result, fetched, started>>

(* agent_core.py lines 69-86 *)
PriceInsert(q) ==
    /\ pc[q] = "p_insert"
    /\ Answers("postgres")
    /\ CloseDb(q)
    /\ api_data' = [api_data EXCEPT ![q] = Unset]
    /\ \/ /\ Yield(q, "error", PriceDbError, "y68")
          /\ price_history' = rollback(price_history,
                                   IF InsertRejected(api_data[q]) THEN price_history
                                   ELSE Append(price_history, PriceRow(token[q], api_data[q], now)))
          /\ UNCHANGED origin
       \/ /\ ~InsertRejected(api_data[q])
          /\ price_history' = Append(price_history, PriceRow(token[q], api_data[q], now))
          /\ origin' = Append(origin, api_data[q])
          /\ Yield(q, "price_result", api_data[q], "y68")
    /\ UNCHANGED <<now, news_cache, silent, intent, token, cached_result, fetched, started>>

(* main.py lines 69-72: OVERVIEW goes on to the news step *)
NewsStatus(q) ==
    /\ pc[q] = "y68"
    /\ intent[q] \in {"GET_NEWS", "GET_OVERVIEW"}
    /\ Yield(q, "status_update", "Fetching news", "y72")
    /\ UNCHANGED <<dbVars, intent, token, conn, cur, cached_result, api_data, fetched, started>>

(* agent_core.py lines 112-115 *)
NewsConnect(q) ==
    /\ pc[q] = "y72"
    /\ Answers("postgres")
    /\ \/ /\ Yield(q, "error", DbConnFailed, "y75")
          /\ UNCHANGED <<conn, cur>>
       \/ /\ conn' = [conn EXCEPT ![q] = "open"]
          /\ cur' = [cur EXCEPT ![q] = "open"]
          /\ pc' = [pc EXCEPT ![q] = "n_lookup"]
          /\ UNCHANGED events
    /\ cached_result' = [cached_result EXCEPT ![q] = 0]
    /\ UNCHANGED <<dbVars, intent, token, api_data, fetched, started>>

(* agent_core.py lines 117-126, and 136-143 on the hit and failure paths *)
NewsLookup(q) ==
    /\ pc[q] = "n_lookup"
    /\ Answers("postgres")
    /\ LET fresh == NewsFreshIds(news_cache, token[q], now)
       IN  \/ /\ Yield(q, "error", NewsDbError, "y75")
              /\ CloseDb(q)
              /\ UNCHANGED cached_result
           \/ /\ fresh = {}
              /\ pc' = [pc EXCEPT ![q] = "n_fetch"]
              /\ cached_result' = [cached_result EXCEPT ![q] = 0]
              /\ UNCHANGED <<events, conn, cur>>
           \/ \E r \in LatestOf(news_cache, fresh) :
                /\ cached_result' = [cached_result EXCEPT ![q] = r]
                /\ CloseDb(q)
                /\ Yield(q, "news_result", [articles |-> news_cache[r].articles], "y75")
    /\ UNCHANGED <<dbVars, intent, token, api_data, fetched, started>>

(* agent_core.py lines 127-128 *)
NewsFetch(q) ==
    /\ pc[q] = "n_fetch"
    /\ Answers("newsapi")
    /\ fetched' = [fetched EXCEPT ![q] = @ + 1]
    /\ \E api \in get_news(token[q]) :
          IF IsError(api)
          THEN /\ Yield(q, "error", api, "y75")
               /\ CloseDb(q)
               /\ UNCHANGED api_data
          ELSE /\ api_data' = [api_data EXCEPT ![q] = api]
               /\ pc' = [pc EXCEPT ![q] = "n_insert"]
               /\ UNCHANGED <<events, conn, cur>>
    /\ UNCHANGED <<dbVars, intent, token, cached_result, started>>

(* agent_core.py lines 130-143 *)
NewsInsert(q) ==
    /\ pc[q] = "n_insert"
    /\ Answers("postgres")
    /\ CloseDb(q)
    /\ api_data' = [api_data EXCEPT ![q] = Unset]
    /\ \/ /\ Yield(q, "error", NewsDbError, "y75")
          /\ news_cache' = rollback(news_cache,
                                Append(news_cache, NewsRow(token[q], api_data[q].articles, now)))
       \/ /\ news_cache' = Append(news_cache, NewsRow(token[q], api_data[q].articles, now))
          /\ Yield(q, "news_result", api_data[q], "y75")
    /\ UNCHANGED <<now, price_history, origin, silent, intent, token, cached_result, fetched, started>>

(* mutant: a failed or finished price step ends the sequence, news is skipped *)
Done78_SkipNews(q) ==
    /\ pc[q] \in {"y68", "y75"}
    /\ Yield(q, "done", DoneText, "y78")
    /\ UNCHANGED <<dbVars, intent, token, conn, cur, cached_result, api_data, fetched, started>>

(* main.py line 78 *)
Done78(q) ==
    /\ \/ pc[q] = "y68" /\ intent[q] = "GET_PRICE"
       \/ pc[q] = "y75"
    /\ Yield(q, "done", DoneText, "y78")
    /\ UNCHANGED <<dbVars, intent, token, conn, cur, cached_result, api_data, fetched, started>>

---------------------------------------------------------------------------
(* rows an earlier query of a second server process left behind *)
SeededHistory == <<PriceRow("bitcoin", PayFull, 0), PriceRow("bitcoin", PayFine, 1)>>
SeededNews    == <<NewsRow("bitcoin", <<>>, 0),
                   NewsRow("bitcoin", <<[title |-> "t1", url |-> "u1"]>>, 1)>>

ProducerInit ==
    /\ \/ /\ now = 0
          /\ price_history = <<>>
          /\ origin = <<>>
          /\ news_cache = <<>>
       \/ /\ now = 1
          /\ price_history = SeededHistory
          /\ origin = <<PayFull, PayFine>>
          /\ news_cache = SeededNews
    /\ silent = {}
    /\ pc = [q \in Slots |-> "idle"]
    /\ intent = [q \in Slots |-> NoneStr]
    /\ token = [q \in Slots |-> NoneStr]
    /\ events = [q \in Slots |-> <<>>]
    /\ conn = [q \in Slots |-> "none"]
    /\ cur = [q \in Slots |-> "none"]
    /\ cached_result = [q \in Slots |-> 0]
    /\ api_data = [q \in Slots |-> Unset]
    /\ fetched = [q \in Slots |-> 0]
    /\ started = 0

ProducerIdle ==
    /\ silent = {}
    /\ now = 0
    /\ price_history = <<>>
    /\ origin = <<>>
    /\ news_cache = <<>>
    /\ pc = [q \in Slots |-> "idle"]
    /\ intent = [q \in Slots |-> NoneStr]
    /\ token = [q \in Slots |-> NoneStr]
    /\ events = [q \in Slots |-> <<>>]
    /\ conn = [q \in Slots |-> "none"]
    /\ cur = [q \in Slots |-> "none"]
    /\ cached_result = [q \in Slots |-> 0]
    /\ api_data = [q \in Slots |-> Unset]
    /\ fetched = [q \in Slots |-> 0]
    /\ started = 0

(* a text that is not there: None, or a missing key *)
Absent == <<NoneStr>>

(* a request body: whether it is JSON at all, whether it has a query object,
   and the two prompts *)
Body(json, has_query, query_prompt, top_prompt) ==
    [json |-> json, has_query |-> has_query, query_prompt |-> query_prompt,
     prompt |-> top_prompt]

AdapterIdle ==
    /\ yielded = <<>>
    /\ frames = <<>>
    /\ apc = "accepting"
    /\ body = Body(FALSE, FALSE, Absent, Absent)
    /\ prompt = <<>>

Chats == {1}

(* telegram_bot._new_session, the memory fields *)
new_session == [last_token |-> NoneStr, last_intent |-> NoneStr, history |-> <<>>]

(* telegram_bot._save_sessions: json.dump writes every chat id as a string key *)
save_sessions(sessions) ==
    [k \in {ToString(c) : c \in DOMAIN sessions} |->
        sessions[CHOOSE c \in DOMAIN sessions : ToString(c) = k]]

(* int(k) for a key of sessions.json *)
IntOf(k) == CHOOSE n \in 0..9 : ToString(n) = k

(* telegram_bot._load_sessions: {int(k): v for k, v in data.items()} *)
read_sessions(data) ==
    [c \in {IntOf(k) : k \in DOMAIN data} |-> data[ToString(c)]]

BotIdle ==
    /\ sessions_json = save_sessions([c \in Chats |-> new_session])
    /\ full_response = <<>>
    /\ status_message = <<>>
    /\ SESSIONS = [c \in Chats |-> new_session]
    /\ bot_data = <<>>
    /\ pages = [c \in Chats |-> <<>>]
    /\ user_message_raw = <<>>
    /\ user_message = <<>>
    /\ chat_id = 1
    /\ bpc = "idle"

Init == ProducerInit /\ AdapterIdle /\ BotIdle

Next ==
    \/ \E q \in DOMAIN pc, question \in Questions, t \in Instants : Start(q, question, t)
          /\ UNCHANGED <<adapterVars, botVars>>
    \/ \E q \in DOMAIN pc : Dispatch(q)
          /\ UNCHANGED <<adapterVars, botVars>>
    \/ \E q \in DOMAIN pc : WalletResult(q)
          /\ UNCHANGED <<adapterVars, botVars>>
    \/ \E q \in DOMAIN pc : TokenListResult(q)
          /\ UNCHANGED <<adapterVars, botVars>>
    \/ \E q \in DOMAIN pc : Done49(q)
          /\ UNCHANGED <<adapterVars, botVars>>
    \/ \E q \in DOMAIN pc : Done56(q)
          /\ UNCHANGED <<adapterVars, botVars>>
    \/ \E q \in DOMAIN pc : Done61(q)
          /\ UNCHANGED <<adapterVars, botVars>>
    \/ \E q \in DOMAIN pc : Return(q)
          /\ UNCHANGED <<adapterVars, botVars>>
    \/ \E q \in DOMAIN pc : PriceConnect(q)
          /\ UNCHANGED <<adapterVars, botVars>>
    \/ \E q \in DOMAIN pc : PriceLookup(q)
          /\ UNCHANGED <<adapterVars, botVars>>
    \/ \E q \in DOMAIN pc : PriceFetch(q)
          /\ UNCHANGED <<adapterVars, botVars>>
    \/ \E q \in DOMAIN pc : PriceInsert(q)
          /\ UNCHANGED <<adapterVars, botVars>>
    \/ \E q \in DOMAIN pc : NewsStatus(q)
          /\ UNCHANGED <<adapterVars, botVars>>
    \/ \E q \in DOMAIN pc : NewsConnect(q)
          /\ UNCHANGED <<adapterVars, botVars>>
    \/ \E q \in DOMAIN pc : NewsLookup(q)
          /\ UNCHANGED <<adapterVars, botVars>>
    \/ \E q \in DOMAIN pc : NewsFetch(q)
          /\ UNCHANGED <<adapterVars, botVars>>
    \/ \E q \in DOMAIN pc : NewsInsert(q)
          /\ UNCHANGED <<adapterVars, botVars>>
    \/ \E q \in DOMAIN pc : Done78(q)
          /\ UNCHANGED <<adapterVars, botVars>>

Spec == Init /\ [][Next]_vars

---------------------------------------------------------------------------
(* Properties of the event producer and the cache store *)

Names(s) == [i \in 1..Len(s) |-> s[i].event]

IsPrefix(s, t) == Len(s) <= Len(t) /\ SubSeq(t, 1, Len(s)) = s

(* C1: every event sequence starts with intent_recognized; done occurs only as
   the last event, so nothing follows it; and a sequence that has ended ends
   with done *)
C1_FirstIntentLastDone ==
    \A q \in DOMAIN pc :
        LET n == Names(events[q])
        IN  /\ n # <<>> => n[1] = "intent_recognized"
            /\ \A i \in 1..(Len(n) - 1) : n[i] # "done"
            /\ pc[q] = "returned" => (n # <<>> /\ n[Len(n)] = "done")

C1_Witness ==
    \E q \in DOMAIN pc :
        /\ pc[q] = "returned"
        /\ Len(events[q]) = 6
        /\ events[q][3].event = "error"

(* an upstream fetch of the query came back as a failure: an error dict from a
   fetcher, or the one-entry error listing of get_token_list *)
UpstreamFailed(q) ==
    \E i \in DOMAIN events[q] :
        LET e == events[q][i]
        IN  \/ /\ e.event \in {"wallet_info_result", "error"}
               /\ IsError(e.data)
               /\ e.data \notin {DbConnFailed, PriceDbError, NewsDbError}
            \/ /\ e.event = "token_list_result"
               /\ e.data.tokens = << [id |-> "", text |-> "Error fetching tokens"] >>

(* C2: after an upstream failure the sequence still ends with done and holds
   at least one error event, whatever the intent *)
C2_FailureYieldsErrorEvent ==
    \A q \in DOMAIN pc :
        (pc[q] = "returned" /\ UpstreamFailed(q)) =>
            /\ Names(events[q])[Len(events[q])] = "done"
            /\ \E i \in DOMAIN events[q] : events[q][i].event = "error"

OverviewShapes ==
    { <<"intent_recognized", "status_update", a, "status_update", b, "done">> :
        a \in {"price_result", "error"}, b \in {"news_result", "error"} }

(* C3: an OVERVIEW query with a resolved subject yields intent_recognized,
   status_update (price), the price outcome, status_update (news), the news
   outcome, done: the price outcome precedes the news outcome, and the news step
   runs whatever the price outcome was *)
C3_OverviewOrder ==
    \A q \in DOMAIN pc :
        (intent[q] = "GET_OVERVIEW" /\ token[q] # NoneStr) =>
            /\ \E shape \in OverviewShapes : IsPrefix(Names(events[q]), shape)
            /\ Len(events[q]) >= 2 => events[q][2].data = "Fetching price"
            /\ Len(events[q]) >= 4 => events[q][4].data = "Fetching news"
            /\ pc[q] = "returned" => Names(events[q]) \in OverviewShapes

C3_Witness ==
    \E q \in DOMAIN pc :
        /\ pc[q] = "returned"
        /\ intent[q] = "GET_OVERVIEW"
        /\ Names(events[q]) =
              <<"intent_recognized", "status_update", "error", "status_update",
                "news_result", "done">>

(* C4: a lookup that the store answers is a hit iff some row of the key has
   now - fetched_at <= the category's window; the row of a hit has the key, is
   within the window and no row of the key is more recent *)
C4_LookupFreshness ==
    [][ \A q \in DOMAIN pc :
          /\ (pc[q] = "p_lookup" /\ pc'[q] # "p_lookup") =>
                LET rows   == {i \in DOMAIN price_history : price_history[i].token_id = token[q]}
                    inWin  == {i \in rows : now - price_history[i].fetched_at <= 5}
                    r      == cached_result'[q]
                    failed == pc'[q] = "y68" /\ r = 0
                IN  /\ ~failed => (r # 0 <=> inWin # {})
                    /\ pc'[q] = "p_fetch" => r = 0
                    /\ r # 0 => /\ r \in inWin
                                /\ \A j \in rows :
                                      price_history[j].fetched_at <= price_history[r].fetched_at
          /\ (pc[q] = "n_lookup" /\ pc'[q] # "n_lookup") =>
                LET rows   == {i \in DOMAIN news_cache : news_cache[i].query = token[q]}
                    inWin  == {i \in rows : now - news_cache[i].fetched_at <= 60}
                    r      == cached_result'[q]
                    failed == pc'[q] = "y75" /\ r = 0
                IN  /\ ~failed => (r # 0 <=> inWin # {})
                    /\ pc'[q] = "n_fetch" => r = 0
                    /\ r # 0 => /\ r \in inWin
                                /\ \A j \in rows :
                                      news_cache[j].fetched_at <= news_cache[r].fetched_at
                                /\ events'[q][Len(events'[q])].data.articles
                                      = news_cache[r].articles
    ]_vars

C4_Witness ==
    \E q \in DOMAIN pc :
        /\ pc[q] = "y68"
        /\ cached_result[q] = 2
        /\ price_history[1].token_id = price_history[2].token_id
        /\ now - price_history[1].fetched_at <= 5
        /\ price_history[1].fetched_at < price_history[2].fetched_at

(* C5: a price query answered from the row that the first query of an empty
   cache inserted calls no fetcher and yields a price_result equal to the one the
   first query yielded *)
C5_SecondQueryIdentical ==
    \A q \in DOMAIN pc :
        (pc[q] = "y68" /\ cached_result[q] = 1 /\ Len(price_history) = 1) =>
            /\ fetched[q] = 0
            /\ events[q][Len(events[q])] = Event("price_result", origin[1])

---------------------------------------------------------------------------
(* Protocol adapters: main.format_event (one JSON line per event) and      *)
(* sentient_adapter._sse_adapter (one SSE frame per line).  A wire text is *)
(* a sequence of characters; the JSON punctuation marks, the separators    *)
(* ": " and ", ", the literal null, and each key or event name are single  *)
(* symbols of that sequence.                                               *)

Q  == "\""
B  == "\\"
NL == "\n"

(* JSON values: a string, null, or an object given as its key/value pairs *)
JStr(s)  == [kind |-> "str", s |-> s, ps |-> <<>>]
JNull    == [kind |-> "null", s |-> <<>>, ps |-> <<>>]
JObj(ps) == [kind |-> "obj", s |-> <<>>, ps |-> ps]
Pair(k, val) == [key |-> k, val |-> val]

(* mutant: a line feed inside a string is written as it is *)
EscapeChar_RawNewline(c) ==
    CASE c = Q -> <<B, Q>>
      [] c = B -> <<B, B>>
      [] OTHER -> <<c>>

(* json.dumps: the escapes of a string literal *)
EscapeChar(c) ==
    CASE c = Q  -> <<B, Q>>
      [] c = B  -> <<B, B>>
      [] c = NL -> <<B, "n">>
      [] OTHER  -> <<c>>

RECURSIVE Escape(_)
Escape(s) == IF s = <<>> THEN <<>> ELSE EscapeChar(Head(s)) \o Escape(Tail(s))

EncStr(s) == <<Q>> \o Escape(s) \o <<Q>>

(* json.dumps with the default separators *)
RECURSIVE dumps(_)
RECURSIVE EncPairs(_)
EncPairs(ps) ==
    IF ps = <<>> THEN <<>>
    ELSE EncStr(ps[1].key) \o <<": ">> \o dumps(ps[1].val)
         \o (IF Len(ps) > 1 THEN <<", ">> \o EncPairs(Tail(ps)) ELSE <<>>)

dumps(val) ==
    CASE val.kind = "str"  -> EncStr(val.s)
      [] val.kind = "null" -> <<"null">>
      [] val.kind = "obj"  -> <<"{">> \o EncPairs(val.ps) \o <<"}">>

(* main.py lines 33-34 *)
format_event(event_name, data) ==
    dumps(JObj(<<Pair(<<"event">>, JStr(<<event_name>>)), Pair(<<"data">>, data)>>))
    \o <<NL>>

(* json.loads: the value read at position i and the position after it *)
Fail == [ok |-> FALSE, val |-> JNull, next |-> 0]

Read(val, next) == [ok |-> TRUE, val |-> val, next |-> next]

RECURSIVE ReadStr(_, _, _)
ReadStr(s, i, acc) ==
    IF i > Len(s) THEN Fail
    ELSE IF s[i] = Q THEN Read(JStr(acc), i + 1)
    ELSE IF s[i] = NL THEN Fail
    ELSE IF s[i] = B THEN
        IF i + 1 > Len(s) THEN Fail
        ELSE IF s[i + 1] = Q THEN ReadStr(s, i + 2, Append(acc, Q))
        ELSE IF s[i + 1] = B THEN ReadStr(s, i + 2, Append(acc, B))
        ELSE IF s[i + 1] = "n" THEN ReadStr(s, i + 2, Append(acc, NL))
        ELSE Fail
    ELSE ReadStr(s, i + 1, Append(acc, s[i]))

RECURSIVE ReadValue(_, _)
RECURSIVE ReadPairs(_, _, _)
ReadPairs(s, i, acc) ==
    IF i > Len(s) \/ s[i] # Q THEN Fail
    ELSE LET k == ReadStr(s, i + 1, <<>>) IN
        IF ~k.ok \/ k.next > Len(s) \/ s[k.next] # ": " THEN Fail
        ELSE LET x == ReadValue(s, k.next + 1) IN
            IF ~x.ok \/ x.next > Len(s) THEN Fail
            ELSE LET ps == Append(acc, Pair(k.val.s, x.val)) IN
                IF s[x.next] = "}" THEN Read(JObj(ps), x.next + 1)
                ELSE IF s[x.next] = ", " THEN ReadPairs(s, x.next + 1, ps)
                ELSE Fail

ReadValue(s, i) ==
    IF i > Len(s) THEN Fail
    ELSE IF s[i] = Q THEN ReadStr(s, i + 1, <<>>)
    ELSE IF s[i] = "null" THEN Read(JNull, i + 1)
    ELSE IF s[i] = "{" THEN
        IF i + 1 <= Len(s) /\ s[i + 1] = "}"
        THEN Read(JObj(<<>>), i + 2)
        ELSE ReadPairs(s, i + 1, <<>>)
    ELSE Fail

(* json.loads(line): leading and trailing whitespace is skipped; ok is FALSE
   where Python raises JSONDecodeError *)
loads(line) ==
    LET t == Strip(line)
        r == ReadValue(t, 1)
    IN  IF r.ok /\ r.next = Len(t) + 1 THEN r ELSE Fail

(* dict.get(k): the value of the last pair with key k, None without one *)
Get(obj, k) ==
    LET hits == {i \in 1..Len(obj.ps) : obj.ps[i].key = <<k>>}
    IN  IF hits = {} THEN JNull
        ELSE obj.ps[CHOOSE i \in hits : \A j \in hits : j <= i].val

(* Python truth value *)
Truthy(val) == val.s # <<>> \/ val.ps # <<>>

(* the receiving side cuts the wire at each line feed (aiter_lines) *)
RECURSIVE SplitLines(_)
SplitLines(w) ==
    IF w = <<>> THEN <<>>
    ELSE LET cut == CHOOSE i \in 1..(Len(w) + 1) :
                        /\ i = Len(w) + 1 \/ w[i] = NL
                        /\ \A j \in 1..(i - 1) : w[j] # NL
         IN  <<SubSeq(w, 1, cut - 1)>>
             \o (IF cut >= Len(w) THEN <<>> ELSE SplitLines(SubSeq(w, cut + 1, Len(w))))

RECURSIVE Concat(_)
Concat(chunks) == IF chunks = <<>> THEN <<>> ELSE Head(chunks) \o Concat(Tail(chunks))

(* sentient_adapter.py lines 83-84: the two chunks of one frame *)
SseFrame(event, data) ==
    << <<"event:", " ">> \o event \o <<NL>>,
       <<"data:", " ">> \o dumps(data) \o <<NL, NL>> >>

(* line 87: the closing frame written when the producer is exhausted *)
Sentinel == << <<"event:", " ", "done", NL, "data:", " ", "{", "}", NL, NL>> >>

(* lines 89-91 *)
ErrorFrame(e) ==
    << <<"event:", " ", "error", NL>>,
       <<"data:", " ">> \o dumps(JObj(<<Pair(<<"message">>, JStr(<<e>>))>>)) \o <<NL, NL>> >>

(* the text an f-string gives for the event name *)
EventText(val) == IF val.kind = "str" THEN val.s ELSE dumps(val)

(* lines 68-84, one pass of the loop body: the chunks written, and the
   exception raised if any.  A decoded payload is always a JSON value, so the
   normalisation of lines 80-81 leaves it alone. *)
sse_adapter(line) ==
    IF line = <<>> THEN [out |-> <<>>, exc |-> NoneStr]
    ELSE LET payload == loads(line) IN
        IF ~payload.ok
        THEN [out |-> SseFrame(<<"LOG">>, JObj(<<Pair(<<"message">>, JStr(Strip(line)))>>)),
              exc |-> NoneStr]
        ELSE IF payload.val.kind # "obj"
        THEN [out |-> <<>>, exc |-> "AttributeError"]
        ELSE LET got   == Get(payload.val, "event")
                 event == IF Truthy(got) THEN got ELSE JStr(<<"message">>)
                 data  == Get(payload.val, "data")
             IN  [out |-> SseFrame(EventText(event), data), exc |-> NoneStr]

(* mutant: the handler lets the exception through *)
Except_Propagates(e) == [out |-> <<>>, apc |-> "crashed"]

(* lines 88-91: except Exception, after which the generator returns *)
Except(e) == [out |-> ErrorFrame(e), apc |-> "failed"]

Ev(event_name, data) == [event |-> event_name, data |-> data]

NoEvent == Ev(NoneStr, JNull)

(* events a producer passes to format_event *)
SampleEvents ==
    { Ev("intent_recognized",
         JObj(<<Pair(<<"intent">>, JStr(<<"GET_PRICE">>)), Pair(<<"token">>, JNull)>>)),
      Ev("status_update", JStr(<<"a", Q, "b">>)),
      Ev("status_update", JStr(<<B, "n">>)),
      Ev("error", JObj(<<Pair(<<"message">>, JStr(<<"a", NL, "b">>))>>)),
      Ev("news_result", JObj(<<>>)),
      Ev("done", JStr(<<"Stream finished.">>)) }

(* other things a layered producer can yield: the empty string, text that
   is not JSON, a blank line, JSON that is not an object, an object with no
   event name *)
RawLines ==
    { <<>>,
      <<" ", "oops", NL>>,
      <<NL>>,
      <<"null", NL>>,
      <<Q, "a", Q, NL>>,
      <<"{", Q, "message", Q, ": ", Q, "a", Q, "}", NL>> }

(* one iteration of  async for line in stream_agent_response(prompt) *)
Pull(item) ==
    /\ apc = "running"
    /\ Len(yielded) < MaxLines
    /\ yielded' = Append(yielded, item)
    /\ LET r == sse_adapter(item.line) IN
           IF r.exc = NoneStr
           THEN /\ frames' = frames \o r.out
                /\ apc' = apc
           ELSE /\ frames' = frames \o Except(r.exc).out
                /\ apc' = Except(r.exc).apc
    /\ UNCHANGED <<body, prompt, producerVars, botVars>>

PullEvent(e) == Pull([ev |-> e, line |-> format_event(e.event, e.data)])

PullRaw(l) == Pull([ev |-> NoEvent, line |-> l])

(* the producer raises instead of yielding *)
ProducerRaises ==
    /\ apc = "running"
    /\ frames' = frames \o Except("RuntimeError").out
    /\ apc' = Except("RuntimeError").apc
    /\ UNCHANGED <<yielded, body, prompt, producerVars, botVars>>

(* the producer is exhausted: line 87, then the generator returns *)
ProducerEnds ==
    /\ apc = "running"
    /\ frames' = frames \o Sentinel
    /\ apc' = "finished"
    /\ UNCHANGED <<yielded, body, prompt, producerVars, botVars>>

(* the bodies a client posts *)
Bodies ==
    { Body(FALSE, FALSE, Absent, Absent),
      Body(TRUE, FALSE, Absent, Absent),
      Body(TRUE, FALSE, Absent, <<>>),
      Body(TRUE, TRUE, Absent, <<"price">>),
      Body(TRUE, TRUE, <<>>, Absent),
      Body(TRUE, TRUE, <<>>, <<"price">>),
      Body(TRUE, TRUE, <<"price">>, Absent),
      Body(TRUE, FALSE, Absent, <<"price">>) }

(* a str that Python takes as true *)
NonEmpty(text) == text # Absent /\ text # <<>>

(* mutant: an empty query.prompt is taken as the prompt *)
extract_prompt_AcceptsEmpty(b) ==
    IF b.has_query /\ b.query_prompt # Absent THEN b.query_prompt
    ELSE IF NonEmpty(b.prompt) THEN b.prompt
    ELSE Absent

(* sentient_adapter.py lines 34-41: the prompt, or Absent where ValueError is raised *)
extract_prompt(b) ==
    IF b.has_query /\ NonEmpty(b.query_prompt) THEN b.query_prompt
    ELSE IF NonEmpty(b.prompt) THEN b.prompt
    ELSE Absent

(* lines 93-115: the body is parsed and validated (QueryModel.prompt is a
   required str), the prompt is extracted, and either a 422 response is
   returned or the stream is opened *)
assist(b) ==
    /\ apc = "accepting"
    /\ body' = b
    /\ IF ~b.json \/ (b.has_query /\ b.query_prompt = Absent)
          \/ extract_prompt(b) = Absent
       THEN /\ apc' = "refused"
            /\ prompt' = prompt
       ELSE /\ apc' = "running"
            /\ prompt' = extract_prompt(b)
    /\ UNCHANGED <<yielded, frames, producerVars, botVars>>

AdapterInit == ProducerIdle /\ AdapterIdle /\ BotIdle

AdapterNext ==
    \/ \E b \in Bodies : assist(b)
    \/ \E e \in SampleEvents : PullEvent(e)
    \/ \E l \in RawLines : PullRaw(l)
    \/ ProducerRaises
    \/ ProducerEnds

AdapterSpec == AdapterInit /\ [][AdapterNext]_vars

(* telegram_bot.sse_events: the frames a client reads off the SSE wire *)
SSEEvent(event, data) == [event |-> IF event = <<>> THEN <<"message">> ELSE event,
                          data |-> data]

RECURSIVE JoinLines(_)
JoinLines(ls) ==
    IF Len(ls) = 1 THEN ls[1] ELSE ls[1] \o <<NL>> \o JoinLines(Tail(ls))

RECURSIVE SseScan(_, _, _, _)
SseScan(ls, event_name, data_lines, out) ==
    IF ls = <<>> THEN out
    ELSE LET line == Head(ls) IN
        IF line = <<>>
        THEN SseScan(Tail(ls), <<>>, <<>>,
                     IF data_lines # <<>>
                     THEN Append(out, SSEEvent(event_name, JoinLines(data_lines)))
                     ELSE out)
        ELSE IF Head(line) = ":"
        THEN SseScan(Tail(ls), event_name, data_lines, out)
        ELSE IF Head(line) = "event:"
        THEN SseScan(Tail(ls), Strip(Tail(line)), data_lines, out)
        ELSE IF Head(line) = "data:"
        THEN SseScan(Tail(ls), event_name, Append(data_lines, Strip(Tail(line))), out)
        ELSE SseScan(Tail(ls), event_name, Append(data_lines, line), out)

sse_events(wire) == SseScan(SplitLines(wire), <<>>, <<>>, <<>>)

---------------------------------------------------------------------------
(* Properties of the protocol adapters *)

SentEvents == [i \in 1..Len(yielded) |-> yielded[i].ev]

OnlyEvents == \A i \in 1..Len(yielded) : yielded[i].ev # NoEvent

(* the line wire: every chunk the producer has yielded, end to end *)
LineWire == Concat([i \in 1..Len(yielded) |-> yielded[i].line])

(* a consumer of the line protocol decodes one line to (name, payload) *)
DecodeLine(line) ==
    LET r == loads(line) IN
        IF r.ok /\ r.val.kind = "obj"
        THEN [event |-> Get(r.val, "event"), data |-> Get(r.val, "data")]
        ELSE [event |-> JNull, data |-> JNull]

(* C6: encoding an event sequence with format_event and decoding the wire
   line by line gives back the sequence: one line per event, in order, each
   with the event's name and a payload equal to the event's payload. *)
C6_LineRoundTrip ==
    OnlyEvents =>
        LET ls == SplitLines(LineWire) IN
            /\ Len(ls) = Len(yielded)
            /\ \A i \in 1..Len(ls) :
                   DecodeLine(ls[i]) = [event |-> JStr(<<SentEvents[i].event>>),
                                        data  |-> SentEvents[i].data]

C6_Witness ==
    /\ OnlyEvents
    /\ Len(yielded) = 3
    /\ \E i, j, k \in 1..3 :
           /\ i < j
           /\ j < k
           /\ SentEvents[i].data = JStr(<<B, "n">>)
           /\ SentEvents[j].data = JObj(<<Pair(<<"message">>, JStr(<<"a", NL, "b">>))>>)
           /\ SentEvents[k].data = JStr(<<"a", Q, "b">>)

(* what a client of the SSE stream sees: (name, decoded payload) per frame *)
ConsumerView(chunks) ==
    LET fs == sse_events(Concat(chunks)) IN
        [i \in 1..Len(fs) |-> [event |-> fs[i].event, data |-> loads(fs[i].data).val]]

Produced == [i \in 1..Len(yielded) |->
                [event |-> <<SentEvents[i].event>>, data |-> SentEvents[i].data]]

(* a producer sequence that opens with the intent and closes with its one done *)
WellFormed(evs) ==
    /\ Len(evs) >= 2
    /\ evs[1].event = "intent_recognized"
    /\ \A i \in 1..Len(evs) : evs[i].event = "done" <=> i = Len(evs)

(* C7: once the frame adapter has finished a well-formed producer sequence,
   the client of the SSE stream has seen exactly the producer's events: same
   names and payloads, same order, none dropped and none added, and so one
   done, last. *)
C7_FramesMirrorProducer ==
    (apc = "finished" /\ OnlyEvents /\ WellFormed(SentEvents)) =>
        ConsumerView(frames) = Produced

SeenFrames == sse_events(Concat(frames))

(* C8: a line that is not JSON becomes one LOG frame and the adapter keeps
   running; an exception raised while adapting (by the producer, or on a line
   that is JSON but not an object) becomes one error frame and ends the
   stream; once the stream has ended no frame follows; no exception escapes
   the adapter. *)
C8_AdapterRecovery ==
    [][ /\ apc' # "crashed"
        /\ apc # "running" => frames' = frames
        /\ \A l \in RawLines :
               (apc = "running" /\ yielded' = Append(yielded, [ev |-> NoEvent, line |-> l])) =>
                   /\ (l # <<>> /\ ~loads(l).ok) =>
                          /\ apc' = "running"
                          /\ sse_events(Concat(frames')) =
                                 Append(SeenFrames,
                                        SSEEvent(<<"LOG">>,
                                                 dumps(JObj(<<Pair(<<"message">>,
                                                                   JStr(Strip(l)))>>))))
                   /\ (loads(l).ok /\ loads(l).val.kind # "obj") =>
                          /\ apc' = "failed"
                          /\ Len(sse_events(Concat(frames'))) = Len(SeenFrames) + 1
                          /\ sse_events(Concat(frames'))[Len(SeenFrames) + 1].event = <<"error">>
        /\ (apc = "running" /\ yielded' = yielded /\ apc' \notin {"running", "finished"}) =>
               /\ apc' = "failed"
               /\ Len(sse_events(Concat(frames'))) = Len(SeenFrames) + 1
               /\ sse_events(Concat(frames'))[Len(SeenFrames) + 1].event = <<"error">>
      ]_vars

C8_Witness ==
    /\ apc = "failed"
    /\ Len(yielded) = 3
    /\ Len(SeenFrames) = 3
    /\ SeenFrames[1].event = <<"LOG">>
    /\ SeenFrames[2].event = <<"status_update">>
    /\ SeenFrames[3].event = <<"error">>

---------------------------------------------------------------------------
(* Chat session engine: telegram_bot.py.  A chat message is handled by     *)
(* building the prompt, sending it to the producer, and reading the        *)
(* producer's events back: the producer of the first part of this module   *)
(* runs in between.                                                        *)

(* line 123 *)
TRIGGER_WORDS ==
    { <<"price">>, <<"news">>, <<"overview">>, <<"now">>,
      <<"price", " ", "now">>, <<"news", " ", "now">>,
      <<"check", " ", "price">>, <<"check", " ", "news">> }

(* mutant: the text is compared as it was typed *)
build_contextual_prompt_CaseSensitive(raw, session) ==
    LET msg == Strip(raw)
    IN  IF session.last_token # NoneStr /\ msg \in TRIGGER_WORDS
        THEN <<session.last_token, " ">> \o msg
        ELSE msg

(* lines 125-140; the one-word test of lines 138-139 is covered by line 135 *)
build_contextual_prompt(raw, session) ==
    LET msg   == Strip(raw)
        lower == LowerText(msg)
    IN  IF session.last_token # NoneStr /\ lower \in TRIGGER_WORDS
        THEN <<session.last_token, " ">> \o msg
        ELSE msg

(* texts a user sends *)
BotMessages ==
    { <<"bitcoin", " ", "price">>, <<"bitcoin">>, <<"price", " ", "now">>, <<"Price">>,
      <<" ", "news", " ">>, <<"price", " ", "please">>, <<"list", " ", "tokens">>,
      <<"0x52908400098527886e0f7030069857d2e4169ee7">>, <<" ">> }

HistoryCap == 20

(* mutant: the cap keeps the oldest entries *)
LastEntries_KeepsOldest(history) ==
    IF Len(history) <= HistoryCap THEN history
    ELSE SubSeq(history, 1, HistoryCap)

(* lines 213-215: history[-20:] *)
LastEntries(history) ==
    IF Len(history) <= HistoryCap THEN history
    ELSE SubSeq(history, Len(history) - HistoryCap + 1, Len(history))

(* mutant: the prompt is built from the session of the chat served last *)
handle_message_LastChat(c, text) ==
    /\ bpc = "idle"
    /\ text # <<>>
    /\ started < MaxQueries
    /\ chat_id' = c
    /\ user_message_raw' = text
    /\ SESSIONS' = [SESSIONS EXCEPT ![c].history = LastEntries(Append(@, text))]
    /\ bpc' = "streaming"
    /\ LET built == build_contextual_prompt(text, SESSIONS[chat_id]) IN
           /\ user_message' = built
           /\ IF extract_prompt(Body(TRUE, TRUE, built, Absent)) = Absent
              THEN /\ started' = started + 1
                   /\ UNCHANGED <<dbVars, slotVars>>
              ELSE Start(1, built, now)
    /\ sessions_json' = save_sessions(SESSIONS')
    /\ full_response' = <<>>
    /\ status_message' = <<>>
    /\ UNCHANGED <<bot_data, pages, adapterVars>>

(* lines 197-245: the message arrives, the prompt is built and posted to
   /assist, which refuses an empty prompt (sentient_adapter.py lines 36-41)
   and otherwise starts the producer *)
handle_message(c, text) ==
    /\ bpc = "idle"
    /\ text # <<>>
    /\ started < MaxQueries
    /\ chat_id' = c
    /\ user_message_raw' = text
    /\ SESSIONS' = [SESSIONS EXCEPT ![c].history = LastEntries(Append(@, text))]
    /\ bpc' = "streaming"
    /\ LET built == build_contextual_prompt(text, SESSIONS[c]) IN
           /\ user_message' = built
           /\ IF extract_prompt(Body(TRUE, TRUE, built, Absent)) = Absent
              THEN /\ started' = started + 1
                   /\ UNCHANGED <<dbVars, slotVars>>
              ELSE Start(1, built, now)
    /\ sessions_json' = save_sessions(SESSIONS')
    /\ full_response' = <<>>
    /\ status_message' = <<>>
    /\ UNCHANGED <<bot_data, pages, adapterVars>>

Line(kind, i) == [kind |-> kind, at |-> i]

Edit(text, control, i) == [text |-> text, control |-> control, after |-> i]

(* lines 355-363: the request was refused; the message shows the error and
   the sessions are saved *)
handle_message_refused ==
    /\ bpc = "streaming"
    /\ user_message = <<>>
    /\ bpc' = "idle"
    /\ status_message' = <<Edit(<<Line("Error", 0)>>, None, 0)>>
    /\ sessions_json' = save_sessions(SESSIONS)
    /\ UNCHANGED <<SESSIONS, bot_data, pages, user_message_raw, user_message, chat_id,
                   full_response, producerVars, adapterVars>>

(* mutant: a remembered subject is never replaced *)
RECURSIVE Remember_KeepsFirst(_, _)
Remember_KeepsFirst(session, evs) ==
    IF evs = <<>> THEN session
    ELSE LET e == Head(evs)
             s == IF e.event = "intent_recognized"
                  THEN [session EXCEPT
                          !.last_intent = IF e.data.intent # NoneStr
                                          THEN e.data.intent ELSE @,
                          !.last_token  = IF e.data.token # NoneStr /\ @ = NoneStr
                                          THEN e.data.token ELSE @]
                  ELSE session
         IN  Remember_KeepsFirst(s, Tail(evs))

(* lines 261-268, applied to each event in turn *)
RECURSIVE Remember(_, _)
Remember(session, evs) ==
    IF evs = <<>> THEN session
    ELSE LET e == Head(evs)
             s == IF e.event = "intent_recognized"
                  THEN [session EXCEPT
                          !.last_intent = IF e.data.intent # NoneStr
                                          THEN e.data.intent ELSE @,
                          !.last_token  = IF e.data.token # NoneStr
                                          THEN e.data.token ELSE @]
                  ELSE session
         IN  Remember(s, Tail(evs))

PageSize == 20

(* list[a:b] *)
Slice(list, a, b) ==
    SubSeq(list, a + 1, IF b < Len(list) THEN b ELSE Len(list))

Page(list, start, control) ==
    [start |-> start, items |-> Slice(list, start, start + PageSize), control |-> control]

(* lines 293-309: the first page and its Show More button *)
FirstPage(tokens) ==
    Page(tokens, 0, IF Len(tokens) > PageSize THEN PageSize ELSE None)

(* mutant: the button is kept when the page ends exactly at the end of the list *)
NextPage_Inclusive(full_token_list, next_start_index) ==
    LET end_index == next_start_index + PageSize
    IN  Page(full_token_list, next_start_index,
             IF end_index <= Len(full_token_list) THEN end_index ELSE None)

(* lines 184-194: the page a Show More press puts in the message *)
NextPage(full_token_list, next_start_index) ==
    LET end_index == next_start_index + PageSize
    IN  Page(full_token_list, next_start_index,
             IF end_index < Len(full_token_list) THEN end_index ELSE None)

(* lines 271-272: f"{price:,.2f}" and f"{market_cap:,.0f}" raise on None *)
FormatRaises(data) == data.price = None \/ data.market_cap = None

(* lines 282-285: the articles that have a url and a title *)
Headlines(articles) == SelectSeq(articles, LAMBDA a : a.url # "" /\ a.title # "")

(* mutant: the message is edited after every event once there is content *)
Throttle_Always(st, i) ==
    IF st.full_response # <<>>
    THEN [st EXCEPT !.edits = Append(@, Edit(st.full_response, None, i)),
                    !.last_sent_text = st.full_response]
    ELSE st

(* lines 350-353: the message is edited when the content changed *)
Throttle(st, i) ==
    IF st.full_response # <<>> /\ st.full_response # st.last_sent_text
    THEN [st EXCEPT !.edits = Append(@, Edit(st.full_response, None, i)),
                    !.last_sent_text = st.full_response]
    ELSE st

(* mutant: the list is appended to what the turn has accumulated *)
TokenListBranch_Appends(st, e, i) ==
    LET block == Append(st.full_response, Line("token_list_result", i))
    IN  [st EXCEPT !.full_response = block,
                   !.edits = Append(@, Edit(block, FirstPage(e.data.tokens).control, i)),
                   !.last_sent_text = block]

(* lines 293-309: the list replaces the block and is rendered at once, with
   its Show More button; the generic edit is skipped *)
TokenListBranch(st, e, i) ==
    LET block == <<Line("token_list_result", i)>>
    IN  [st EXCEPT !.full_response = block,
                   !.edits = Append(@, Edit(block, FirstPage(e.data.tokens).control, i)),
                   !.last_sent_text = block]

(* lines 268-353 for the i-th event, and lines 359-360 when formatting raises *)
RenderEvent(st, e, i) ==
    IF e.event = "token_list_result" THEN TokenListBranch(st, e, i)
    ELSE IF e.event = "price_result" /\ FormatRaises(e.data)
    THEN [st EXCEPT !.raised = TRUE,
                    !.edits = Append(@, Edit(<<Line("Unexpected error", i)>>, None, i))]
    ELSE LET adds == CASE e.event \in {"price_result", "wallet_info_result", "error"} -> TRUE
                       [] e.event = "news_result" -> Headlines(e.data.articles) # <<>>
                       [] e.event \in {"status_update", "LOG"} -> e.data # ""
                       [] OTHER -> FALSE
         IN  Throttle(IF adds
                      THEN [st EXCEPT !.full_response = Append(@, Line(e.event, i))]
                      ELSE st, i)

(* the loop of lines 246-353 over the events from the i-th on; an exception
   ends it *)
RECURSIVE RenderFrom(_, _, _)
RenderFrom(st, evs, i) ==
    IF i > Len(evs) \/ st.raised THEN st
    ELSE LET next == RenderEvent(st, evs[i], i)
         IN  RenderFrom(IF next.raised THEN next
                        ELSE [next EXCEPT !.blocks = Append(@, next.full_response)],
                        evs, i + 1)

Render(evs) ==
    RenderFrom([full_response |-> <<>>, last_sent_text |-> <<>>, edits |-> <<>>,
                blocks |-> <<>>, raised |-> FALSE], evs, 1)

(* sentient_adapter.py line 87: the frame that ends every stream of /assist *)
SentinelEvent == Event("done", "{}")

(* lines 246-363: the events of the finished stream are read *)
handle_message_events ==
    /\ bpc = "streaming"
    /\ user_message # <<>>
    /\ pc[1] = "returned"
    /\ bpc' = "idle"
    /\ SESSIONS' = [SESSIONS EXCEPT ![chat_id] = Remember(@, events[1])]
    /\ sessions_json' = save_sessions(SESSIONS')
    /\ LET turn == Render(Append(events[1], SentinelEvent))
       IN  /\ status_message' = turn.edits
           /\ full_response' = turn.blocks
    /\ LET lists == {i \in 1..Len(events[1]) : events[1][i].event = "token_list_result"} IN
           IF lists = {}
           THEN UNCHANGED <<bot_data, pages>>
           ELSE LET tokens == events[1][CHOOSE i \in lists : \A j \in lists : j <= i].data.tokens
                IN  /\ bot_data' = tokens
                    /\ pages' = [pages EXCEPT ![chat_id] = <<FirstPage(tokens)>>]
    /\ UNCHANGED <<user_message_raw, user_message, chat_id, producerVars, adapterVars>>

(* lines 166-194: Show More is pressed on the chat's token list message *)
button_callback(c) ==
    /\ bpc = "idle"
    /\ pages[c] # <<>>
    /\ pages[c][Len(pages[c])].control # None
    /\ LET next_start_index == pages[c][Len(pages[c])].control IN
           pages' = [pages EXCEPT ![c] =
                        Append(@, IF bot_data = <<>>
                                  THEN [start |-> next_start_index, items |-> <<>>,
                                        control |-> None]
                                  ELSE NextPage(bot_data, next_start_index))]
    /\ UNCHANGED <<SESSIONS, bot_data, user_message_raw, user_message, chat_id, bpc,
                   sessions_json, full_response, status_message, producerVars, adapterVars>>

(* mutant: /reset does not write sessions.json *)
reset_command_NoSave(c) ==
    /\ bpc = "idle"
    /\ SESSIONS' = [SESSIONS EXCEPT ![c] = new_session]
    /\ UNCHANGED <<bot_data, pages, user_message_raw, user_message, chat_id, bpc,
                   sessions_json, full_response, status_message, producerVars, adapterVars>>

(* lines 159-163: /reset replaces the chat's session with a new one *)
reset_command(c) ==
    /\ bpc = "idle"
    /\ SESSIONS' = [SESSIONS EXCEPT ![c] = new_session]
    /\ sessions_json' = save_sessions(SESSIONS')
    /\ UNCHANGED <<bot_data, pages, user_message_raw, user_message, chat_id, bpc,
                   full_response, status_message, producerVars, adapterVars>>

(* the texts of earlier turns, as sessions.json holds them *)
OldTexts ==
    << <<"h01">>, <<"h02">>, <<"h03">>, <<"h04">>, <<"h05">>, <<"h06">>, <<"h07">>,
       <<"h08">>, <<"h09">>, <<"h10">>, <<"h11">>, <<"h12">>, <<"h13">>, <<"h14">>,
       <<"h15">>, <<"h16">>, <<"h17">>, <<"h18">>, <<"h19">> >>

(* telegram_bot._load_sessions: the sessions the process starts with *)
load_sessions ==
    { [c \in Chats |-> new_session],
      [c \in Chats |-> [new_session EXCEPT !.history = OldTexts]] }

BotInit ==
    /\ ProducerIdle
    /\ AdapterIdle
    /\ SESSIONS \in load_sessions
    /\ sessions_json = save_sessions(SESSIONS)
    /\ full_response = <<>>
    /\ status_message = <<>>
    /\ bot_data = <<>>
    /\ pages = [c \in Chats |-> <<>>]
    /\ user_message_raw = <<>>
    /\ user_message = <<>>
    /\ chat_id = 1
    /\ bpc = "idle"

BotNext ==
    \/ \E c \in Chats, text \in BotMessages : handle_message(c, text)
    \/ handle_message_refused
    \/ handle_message_events
    \/ \E c \in Chats : button_callback(c)
    \/ \E c \in Chats : reset_command(c)
    \/ \E q \in DOMAIN pc : Dispatch(q)
          /\ UNCHANGED <<adapterVars, botVars>>
    \/ \E q \in DOMAIN pc : WalletResult(q)
          /\ UNCHANGED <<adapterVars, botVars>>
    \/ \E q \in DOMAIN pc : TokenListResult(q)
          /\ UNCHANGED <<adapterVars, botVars>>
    \/ \E q \in DOMAIN pc : Done49(q)
          /\ UNCHANGED <<adapterVars, botVars>>
    \/ \E q \in DOMAIN pc : Done56(q)
          /\ UNCHANGED <<adapterVars, botVars>>
    \/ \E q \in DOMAIN pc : Done61(q)
          /\ UNCHANGED <<adapterVars, botVars>>
    \/ \E q \in DOMAIN pc : Return(q)
          /\ UNCHANGED <<adapterVars, botVars>>
    \/ \E q \in DOMAIN pc : PriceConnect(q)
          /\ UNCHANGED <<adapterVars, botVars>>
    \/ \E q \in DOMAIN pc : PriceLookup(q)
          /\ UNCHANGED <<adapterVars, botVars>>
    \/ \E q \in DOMAIN pc : PriceFetch(q)
          /\ UNCHANGED <<adapterVars, botVars>>
    \/ \E q \in DOMAIN pc : PriceInsert(q)
          /\ UNCHANGED <<adapterVars, botVars>>
    \/ \E q \in DOMAIN pc : NewsStatus(q)
          /\ UNCHANGED <<adapterVars, botVars>>
    \/ \E q \in DOMAIN pc : NewsConnect(q)
          /\ UNCHANGED <<adapterVars, botVars>>
    \/ \E q \in DOMAIN pc : NewsLookup(q)
          /\ UNCHANGED <<adapterVars, botVars>>
    \/ \E q \in DOMAIN pc : NewsFetch(q)
          /\ UNCHANGED <<adapterVars, botVars>>
    \/ \E q \in DOMAIN pc : NewsInsert(q)
          /\ UNCHANGED <<adapterVars, botVars>>
    \/ \E q \in DOMAIN pc : Done78(q)
          /\ UNCHANGED <<adapterVars, botVars>>

BotSpec == BotInit /\ [][BotNext]_vars

---------------------------------------------------------------------------
(* Properties of the chat session engine *)

(* the step in which handle_message builds and sends the prompt *)
PromptSent == bpc = "idle" /\ bpc' = "streaming"

(* a trigger phrase was sent with no remembered subject and the producer
   has answered it *)
TriggerWithoutSubject ==
    /\ bpc = "streaming"
    /\ user_message # <<>>
    /\ pc[1] = "returned"
    /\ SESSIONS[chat_id].last_token = NoneStr
    /\ LowerText(Strip(user_message_raw)) \in TRIGGER_WORDS

UnresolvedSubject ==
    /\ events[1][1].data.token = NoneStr
    /\ Names(events[1]) = <<"intent_recognized", "error", "done">>

(* C9 as stated: the prompt is "<last_subject> <text>" iff a subject is
   remembered and the trimmed, lower-cased text is a trigger phrase, and
   otherwise it is the text unchanged; a trigger phrase sent with no
   remembered subject ends in the unresolved-subject error. *)
C9_PassedUnchanged ==
    [][ /\ PromptSent =>
             LET session == SESSIONS[chat_id']
                 text    == user_message_raw'
                 trigger == /\ session.last_token # NoneStr
                            /\ LowerText(Strip(text)) \in TRIGGER_WORDS
             IN  /\ (user_message' = <<session.last_token, " ">> \o text) <=> trigger
                 /\ ~trigger => user_message' = text
        /\ TriggerWithoutSubject' => UnresolvedSubject'
      ]_vars

(* C9, amended: the prompt is "<last_subject> <trimmed text>" iff a subject
   is remembered and the trimmed, lower-cased text is a trigger phrase, and
   otherwise it is the trimmed text; a trigger phrase sent with no remembered
   subject reaches the producer without a subject and ends in the
   unresolved-subject error. *)
C9_ContextRewrite ==
    [][ /\ PromptSent =>
             LET session == SESSIONS[chat_id']
                 msg     == Strip(user_message_raw')
                 trigger == /\ session.last_token # NoneStr
                            /\ LowerText(msg) \in TRIGGER_WORDS
             IN  /\ (user_message' = <<session.last_token, " ">> \o msg) <=> trigger
                 /\ ~trigger => user_message' = msg
        /\ TriggerWithoutSubject' =>
               /\ user_message' = Strip(user_message_raw')
               /\ UnresolvedSubject'
      ]_vars

C9_Witness ==
    /\ bpc = "streaming"
    /\ SESSIONS[chat_id].last_token = "bitcoin"
    /\ user_message_raw = <<" ", "news", " ">>
    /\ user_message = <<"bitcoin", " ", "news">>

(* C10: with a cached list of N tokens, the i-th page shown (the initial
   rendering, then one per Show More press) is the slice [20(i-1) : 20i] of
   the list, each page starting where the one before ended; a page carries
   the Show More control iff its end index 20i is below N; the pages shown,
   end to end, are the list from its start with nothing repeated or left out,
   and the whole list once a page carries no control, so every token is on
   exactly one page; for N = 45 the third page is [40:45] and carries no
   control. *)
C10_Pagination ==
    \A c \in Chats :
        LET ps == pages[c]
            N  == Len(bot_data)
            Lo(i) == 20 * (i - 1)
            Hi(i) == IF 20 * i < N THEN 20 * i ELSE N
            shown == Concat([i \in 1..Len(ps) |-> ps[i].items])
        IN  /\ \A i \in 1..Len(ps) :
                   /\ ps[i].start = Lo(i)
                   /\ i > 1 => ps[i].start = ps[i - 1].control
                   /\ ps[i].items = [k \in 1..(Hi(i) - Lo(i)) |-> bot_data[Lo(i) + k]]
                   /\ (ps[i].control # None) <=> (20 * i < N)
            /\ shown = SubSeq(bot_data, 1, Len(shown))
            /\ (ps # <<>> /\ ps[Len(ps)].control = None) => shown = bot_data
            /\ (N = 45 /\ Len(ps) >= 3) =>
                   /\ Len(ps) = 3
                   /\ ps[1].items = SubSeq(bot_data, 1, 20)
                   /\ ps[2].items = SubSeq(bot_data, 21, 40)
                   /\ ps[3].items = SubSeq(bot_data, 41, 45)
                   /\ ps[3].control = None

C10_Witness ==
    /\ Len(bot_data) = 45
    /\ Len(pages[1]) = 3
    /\ pages[1][3].control = None

(* the step in which /reset replaces a session that held something *)
ResetStep(c) == bpc = "idle" /\ bpc' = "idle" /\ SESSIONS'[c] # SESSIONS[c]

(* a Show More press in chat c would render tokens of the cached list *)
ShowMoreRenders(c) ==
    /\ pages[c] # <<>>
    /\ pages[c][Len(pages[c])].control # None
    /\ bot_data # <<>>

(* C11: right after /reset in a conversation its remembered subject and
   intent are empty, its history is empty, and no Show More selection in it
   renders a token list cached before the reset. *)
C11_ResetClearsAll ==
    [][ \A c \in Chats :
            ResetStep(c) =>
                /\ SESSIONS'[c].last_token = NoneStr
                /\ SESSIONS'[c].last_intent = NoneStr
                /\ SESSIONS'[c].history = <<>>
                /\ ~ShowMoreRenders(c)'
      ]_vars

(* the body is not JSON, or holds no non-empty prompt in either place *)
NoPrompt(b) == ~b.json \/ (~NonEmpty(b.query_prompt) /\ ~NonEmpty(b.prompt))

(* C12: a request to /assist whose body is not valid JSON or carries no
   non-empty prompt is refused with a plain error response; for a refused
   request the producer yields nothing and no frame is ever written. *)
C12_BadRequestRefused ==
    [][ /\ (apc = "accepting" /\ apc' # "accepting" /\ NoPrompt(body')) => apc' = "refused"
        /\ apc' = "refused" => (yielded' = <<>> /\ frames' = <<>>)
        /\ apc = "refused" => apc' = "refused"
      ]_vars

C12_Witness ==
    /\ apc = "refused"
    /\ body = Body(TRUE, TRUE, <<>>, Absent)
    /\ yielded = <<>>
    /\ frames = <<>>

---------------------------------------------------------------------------
(* Queries against peers that may stay silent.  The server keeps resuming the
   generator for as long as its consumer reads, so a step that can be taken
   is eventually taken. *)

TimeoutInit ==
    /\ silent \in SUBSET Peers
    /\ now = 0
    /\ price_history = <<>>
    /\ origin = <<>>
    /\ news_cache = <<>>
    /\ pc = [q \in Slots |-> "idle"]
    /\ intent = [q \in Slots |-> NoneStr]
    /\ token = [q \in Slots |-> NoneStr]
    /\ events = [q \in Slots |-> <<>>]
    /\ conn = [q \in Slots |-> "none"]
    /\ cur = [q \in Slots |-> "none"]
    /\ cached_result = [q \in Slots |-> 0]
    /\ api_data = [q \in Slots |-> Unset]
    /\ fetched = [q \in Slots |-> 0]
    /\ started = 0
    /\ AdapterIdle
    /\ BotIdle

TimeoutNext ==
    \/ \E q \in DOMAIN pc, question \in Questions : Start(q, question, now)
          /\ UNCHANGED <<adapterVars, botVars>>
    \/ \E q \in DOMAIN pc : Dispatch(q)
          /\ UNCHANGED <<adapterVars, botVars>>
    \/ \E q \in DOMAIN pc : WalletResult(q)
          /\ UNCHANGED <<adapterVars, botVars>>
    \/ \E q \in DOMAIN pc : TokenListResult(q)
          /\ UNCHANGED <<adapterVars, botVars>>
    \/ \E q \in DOMAIN pc : Done49(q)
          /\ UNCHANGED <<adapterVars, botVars>>
    \/ \E q \in DOMAIN pc : Done56(q)
          /\ UNCHANGED <<adapterVars, botVars>>
    \/ \E q \in DOMAIN pc : Done61(q)
          /\ UNCHANGED <<adapterVars, botVars>>
    \/ \E q \in DOMAIN pc : Return(q)
          /\ UNCHANGED <<adapterVars, botVars>>
    \/ \E q \in DOMAIN pc : PriceConnect(q)
          /\ UNCHANGED <<adapterVars, botVars>>
    \/ \E q \in DOMAIN pc : PriceLookup(q)
          /\ UNCHANGED <<adapterVars, botVars>>
    \/ \E q \in DOMAIN pc : PriceFetch(q)
          /\ UNCHANGED <<adapterVars, botVars>>
    \/ \E q \in DOMAIN pc : PriceInsert(q)
          /\ UNCHANGED <<adapterVars, botVars>>
    \/ \E q \in DOMAIN pc : NewsStatus(q)
          /\ UNCHANGED <<adapterVars, botVars>>
    \/ \E q \in DOMAIN pc : NewsConnect(q)
          /\ UNCHANGED <<adapterVars, botVars>>
    \/ \E q \in DOMAIN pc : NewsLookup(q)
          /\ UNCHANGED <<adapterVars, botVars>>
    \/ \E q \in DOMAIN pc : NewsFetch(q)
          /\ UNCHANGED <<adapterVars, botVars>>
    \/ \E q \in DOMAIN pc : NewsInsert(q)
          /\ UNCHANGED <<adapterVars, botVars>>
    \/ \E q \in DOMAIN pc : Done78(q)
          /\ UNCHANGED <<adapterVars, botVars>>

TimeoutSpec == TimeoutInit /\ [][TimeoutNext]_vars /\ WF_vars(TimeoutNext)

Running(q) == pc[q] \notin {"idle", "returned"}

EndsWithDone(q) == events[q] # <<>> /\ events[q][Len(events[q])].event = "done"

(* C13: every upstream fetch and storage call of a query is bounded by a
   timeout, so that a query whose peer never answers still gets an error event
   for the sub-step and eventually reaches done *)
C13_SilentPeerStillDone ==
    \A q \in Slots : Running(q) ~> (EndsWithDone(q) /\ pc[q] = "returned")

(* the same with every peer answering *)
C13_AnsweredQueriesFinish ==
    \A q \in Slots : (Running(q) /\ silent = {}) ~> (EndsWithDone(q) /\ pc[q] = "returned")

---------------------------------------------------------------------------
(* Failures of the cache store and of the upstream *)

StorageErrors == {DbConnFailed, PriceDbError, NewsDbError}

UpstreamErrors ==
    {e \in get_token_price_from_api("bitcoin") \cup get_news("bitcoin") : IsError(e)}

StorageCalls == {"y65", "p_lookup", "p_insert", "y72", "n_lookup", "n_insert"}
FetchCalls == {"p_fetch", "n_fetch"}

Emitted(q) == Len(events'[q]) = Len(events[q]) + 1

LastEvent(q) == events[q][Len(events[q])]

(* C14: a storage failure during a cache read or write rolls the transaction
   back, so that no row of it becomes visible, and yields an error event whose
   payload differs from every upstream failure's; a failed upstream fetch is
   reported with the upstream's own error, never with a storage error *)
C14_StorageFailureRollsBack ==
    [][ \A q \in Slots :
          /\ (pc[q] \in StorageCalls /\ Emitted(q) /\ LastEvent(q)'.event = "error") =>
                /\ LastEvent(q)'.data \in StorageErrors
                /\ LastEvent(q)'.data \notin UpstreamErrors
                /\ price_history' = price_history
                /\ news_cache' = news_cache
                /\ conn'[q] # "open"
          /\ (pc[q] \in FetchCalls /\ Emitted(q) /\ LastEvent(q)'.event = "error") =>
                /\ LastEvent(q)'.data \in UpstreamErrors
                /\ LastEvent(q)'.data \notin StorageErrors
                /\ price_history' = price_history
                /\ news_cache' = news_cache
      ]_vars

(* a fetched payload whose INSERT failed: the error is the storage error and
   the table has no row of it *)
C14_Witness ==
    \E q \in Slots :
        /\ pc[q] = "y68"
        /\ fetched[q] = 1
        /\ cached_result[q] = 0
        /\ LastEvent(q) = Event("error", PriceDbError)
        /\ price_history = <<>>

---------------------------------------------------------------------------
(* The session history *)

TurnArrives == bpc = "idle" /\ bpc' = "streaming"

(* C15: the history of a session holds at most 20 entries, the raw texts of
   the most recent turns in arrival order; the 21st text evicts the oldest *)
C15_HistoryBounded ==
    [][ \A c \in Chats :
          LET old == SESSIONS[c].history
              new == SESSIONS'[c].history
          IN  /\ Len(new) <= HistoryCap
              /\ (TurnArrives /\ chat_id' = c) =>
                    new = IF Len(old) < HistoryCap
                          THEN Append(old, user_message_raw')
                          ELSE Append(Tail(old), user_message_raw')
              /\ ~(TurnArrives /\ chat_id' = c) => (new = old \/ new = <<>>)
      ]_vars

(* the 21st text has arrived, it was rewritten for the agent, and the oldest
   entry is gone *)
C15_Witness ==
    \E c \in Chats :
        /\ Len(SESSIONS[c].history) = HistoryCap
        /\ SESSIONS[c].history[1] = OldTexts[2]
        /\ SESSIONS[c].history[HistoryCap] = user_message_raw
        /\ user_message # user_message_raw

---------------------------------------------------------------------------
(* The session memory *)

(* the turn's intent_recognized event, as the bot observed it *)
Observed == events[1][1].data

(* C16: an observed intent_recognized sets last_token and last_intent only
   when its subject is non-empty; with an empty subject both stay as they
   were, so last_intent is never set while last_token is empty *)
C16_MemoryNeedsSubject ==
    [][ \A c \in Chats :
          /\ (handle_message_events /\ chat_id = c /\ Observed.token = NoneStr) =>
                /\ SESSIONS'[c].last_token = SESSIONS[c].last_token
                /\ SESSIONS'[c].last_intent = SESSIONS[c].last_intent
          /\ SESSIONS'[c].last_intent # NoneStr => SESSIONS'[c].last_token # NoneStr
      ]_vars

---------------------------------------------------------------------------
(* The short-circuit branches of the event producer *)

SubjectIntents == {"GET_PRICE", "GET_NEWS", "GET_OVERVIEW"}

NoSubject(q) == intent[q] \in SubjectIntents /\ token[q] = NoneStr

StoreUntouched(q) ==
    /\ conn[q] = "none"
    /\ cur[q] = "none"
    /\ cached_result[q] = 0
    /\ pc[q] \notin StorageCalls \cup FetchCalls

TablesKept == price_history' = price_history /\ news_cache' = news_cache

(* C17: a price, news or overview query without a resolved subject yields
   exactly intent_recognized, error, done, and calls neither the cache store
   nor a fetcher *)
C17_UnresolvedSubjectShortCircuit ==
    [][ \A q \in Slots :
          /\ NoSubject(q)' =>
                /\ IsPrefix(Names(events[q]), <<"intent_recognized", "error", "done">>)'
                /\ (pc[q] = "returned")' =>
                        (Names(events[q]) = <<"intent_recognized", "error", "done">>)'
                /\ StoreUntouched(q)'
                /\ fetched'[q] = 0
          /\ (NoSubject(q) /\ Running(q)) => TablesKept
      ]_vars

C17_Witness ==
    \E q \in Slots :
        /\ NoSubject(q)
        /\ intent[q] = "GET_PRICE"
        /\ pc[q] = "returned"
        /\ Names(events[q]) = <<"intent_recognized", "error", "done">>
        /\ fetched[q] = 0

ShortCircuitShape(q) ==
    <<"intent_recognized", "status_update",
      IF intent[q] = "GET_WALLET_INFO" THEN "wallet_info_result" ELSE "token_list_result",
      "done">>

ShortCircuit(q) == intent[q] \in {"GET_WALLET_INFO", "LIST_TOKENS"}

(* C18: a wallet lookup or a token listing yields intent_recognized,
   status_update, one result event, done; no price_result or news_result, and no
   price or news cache lookup, fetch or insert *)
C18_WalletAndListShortCircuit ==
    [][ \A q \in Slots :
          /\ ShortCircuit(q)' =>
                /\ IsPrefix(Names(events[q]), ShortCircuitShape(q))'
                /\ (pc[q] = "returned")' => (Names(events[q]) = ShortCircuitShape(q))'
                /\ StoreUntouched(q)'
                /\ fetched'[q] <= 1
          /\ (ShortCircuit(q) /\ Running(q)) => TablesKept
      ]_vars

C18_Witness ==
    \E q \in Slots :
        /\ intent[q] = "GET_WALLET_INFO"
        /\ pc[q] = "returned"
        /\ Names(events[q]) = ShortCircuitShape(q)
        /\ IsError(events[q][3].data)
        /\ fetched[q] = 1

---------------------------------------------------------------------------
(* Inserts into the cache store *)

Missed(q) == cached_result[q] = 0

Hit(q) == cached_result'[q] # 0

(* C19: a row is inserted only after a miss and a successful fetch; a hit makes
   no fetch and no insert; a failed fetch inserts nothing, so the key is still
   a miss for the next lookup *)
C19_InsertOnlyAfterMissAndFetch ==
    [][ /\ price_history' # price_history =>
              \E q \in Slots :
                  /\ pc[q] = "p_insert"
                  /\ Missed(q)
                  /\ fetched[q] >= 1
                  /\ api_data[q] \in PricePayloads
                  /\ price_history' = Append(price_history, PriceRow(token[q], api_data[q], now))
        /\ news_cache' # news_cache =>
              \E q \in Slots :
                  /\ pc[q] = "n_insert"
                  /\ Missed(q)
                  /\ fetched[q] >= 1
                  /\ ~IsError(api_data[q])
                  /\ news_cache' = Append(news_cache, NewsRow(token[q], api_data[q].articles, now))
        /\ \A q \in Slots :
              /\ (pc[q] = "p_lookup" /\ Hit(q)) =>
                    pc'[q] = "y68" /\ fetched'[q] = fetched[q] /\ TablesKept
              /\ (pc[q] = "n_lookup" /\ Hit(q)) =>
                    pc'[q] = "y75" /\ fetched'[q] = fetched[q] /\ TablesKept
              /\ (pc[q] = "p_fetch" /\ Emitted(q)) =>
                    /\ pc'[q] = "y68"
                    /\ TablesKept
                    /\ PriceFreshIds(price_history', token[q], now') = {}
              /\ (pc[q] = "n_fetch" /\ Emitted(q)) =>
                    /\ pc'[q] = "y75"
                    /\ TablesKept
                    /\ NewsFreshIds(news_cache', token[q], now') = {}
      ]_vars

(* a price fetch failed after a miss, and the key has no fresh row *)
C19_Witness ==
    \E q \in Slots :
        /\ pc[q] = "y68"
        /\ fetched[q] = 1
        /\ Missed(q)
        /\ LastEvent(q).event = "error"
        /\ LastEvent(q).data \in UpstreamErrors
        /\ PriceFreshIds(price_history, token[q], now) = {}

---------------------------------------------------------------------------
(* Database setup, run against the store the server uses *)

(* creates_tables.setup_database: without a connection, or when a statement
   fails and the transaction is rolled back, the store is left as it was;
   otherwise CREATE TABLE IF NOT EXISTS keeps price_history, and DROP TABLE IF
   EXISTS news_cache followed by CREATE TABLE leaves news_cache empty; the
   DROP waits for the transactions that have read news_cache *)
setup_database ==
    /\ Answers("postgres")
    /\ \A q \in Slots : pc[q] \notin {"n_fetch", "n_insert"}
    /\ \/ UNCHANGED news_cache
       \/ news_cache' = <<>>
    /\ UNCHANGED <<now, price_history, origin, silent, slotVars, started,
                   adapterVars, botVars>>

SetupNext ==
    \/ setup_database
    \/ \E q \in DOMAIN pc, question \in Questions : Start(q, question, now)
          /\ UNCHANGED <<adapterVars, botVars>>
    \/ \E q \in DOMAIN pc : Dispatch(q)
          /\ UNCHANGED <<adapterVars, botVars>>
    \/ \E q \in DOMAIN pc : WalletResult(q)
          /\ UNCHANGED <<adapterVars, botVars>>
    \/ \E q \in DOMAIN pc : TokenListResult(q)
          /\ UNCHANGED <<adapterVars, botVars>>
    \/ \E q \in DOMAIN pc : Done49(q)
          /\ UNCHANGED <<adapterVars, botVars>>
    \/ \E q \in DOMAIN pc : Done56(q)
          /\ UNCHANGED <<adapterVars, botVars>>
    \/ \E q \in DOMAIN pc : Done61(q)
          /\ UNCHANGED <<adapterVars, botVars>>
    \/ \E q \in DOMAIN pc : Return(q)
          /\ UNCHANGED <<adapterVars, botVars>>
    \/ \E q \in DOMAIN pc : PriceConnect(q)
          /\ UNCHANGED <<adapterVars, botVars>>
    \/ \E q \in DOMAIN pc : PriceLookup(q)
          /\ UNCHANGED <<adapterVars, botVars>>
    \/ \E q \in DOMAIN pc : PriceFetch(q)
          /\ UNCHANGED <<adapterVars, botVars>>
    \/ \E q \in DOMAIN pc : PriceInsert(q)
          /\ UNCHANGED <<adapterVars, botVars>>
    \/ \E q \in DOMAIN pc : NewsStatus(q)
          /\ UNCHANGED <<adapterVars, botVars>>
    \/ \E q \in DOMAIN pc : NewsConnect(q)
          /\ UNCHANGED <<adapterVars, botVars>>
    \/ \E q \in DOMAIN pc : NewsLookup(q)
          /\ UNCHANGED <<adapterVars, botVars>>
    \/ \E q \in DOMAIN pc : NewsFetch(q)
          /\ UNCHANGED <<adapterVars, botVars>>
    \/ \E q \in DOMAIN pc : NewsInsert(q)
          /\ UNCHANGED <<adapterVars, botVars>>
    \/ \E q \in DOMAIN pc : Done78(q)
          /\ UNCHANGED <<adapterVars, botVars>>

SetupSpec == Init /\ [][SetupNext]_vars

(* C20: the price and news tables are append-only: no lookup, insert or
   database setup run against an existing store removes or changes a committed
   row, so a fresh row stays available to lookups until its window expires *)
C20_TablesAppendOnly ==
    [][ /\ IsPrefix(price_history, price_history')
        /\ IsPrefix(news_cache, news_cache')
      ]_vars

(* the same for the price table alone *)
C20_PriceRowsKept == [][IsPrefix(price_history, price_history')]_vars

---------------------------------------------------------------------------
(* Two price queries served side by side by two server processes on one
   store *)

Racers == {1, 2}

RaceQuestions == { <<"bitcoin", " ", "price">> }

RaceInstants == {0, 5, 6}

MaxRaceQueries == 3

RaceInit ==
    /\ now = 0
    /\ price_history = <<>>
    /\ origin = <<>>
    /\ news_cache = <<>>
    /\ silent = {}
    /\ pc = [q \in Racers |-> "idle"]
    /\ intent = [q \in Racers |-> NoneStr]
    /\ token = [q \in Racers |-> NoneStr]
    /\ events = [q \in Racers |-> <<>>]
    /\ conn = [q \in Racers |-> "none"]
    /\ cur = [q \in Racers |-> "none"]
    /\ cached_result = [q \in Racers |-> 0]
    /\ api_data = [q \in Racers |-> Unset]
    /\ fetched = [q \in Racers |-> 0]
    /\ started = 0
    /\ AdapterIdle
    /\ BotIdle

RaceNext ==
    \/ \E q \in DOMAIN pc, question \in RaceQuestions, t \in RaceInstants :
          started < MaxRaceQueries /\ Begin(q, question, t)
          /\ UNCHANGED <<adapterVars, botVars>>
    \/ \E q \in DOMAIN pc : Dispatch(q)
          /\ UNCHANGED <<adapterVars, botVars>>
    \/ \E q \in DOMAIN pc : Return(q)
          /\ UNCHANGED <<adapterVars, botVars>>
    \/ \E q \in DOMAIN pc : PriceConnect(q)
          /\ UNCHANGED <<adapterVars, botVars>>
    \/ \E q \in DOMAIN pc : PriceLookup(q)
          /\ UNCHANGED <<adapterVars, botVars>>
    \/ \E q \in DOMAIN pc : PriceFetch(q)
          /\ UNCHANGED <<adapterVars, botVars>>
    \/ \E q \in DOMAIN pc : PriceInsert(q)
          /\ UNCHANGED <<adapterVars, botVars>>
    \/ \E q \in DOMAIN pc : Done78(q)
          /\ UNCHANGED <<adapterVars, botVars>>

RaceSpec == RaceInit /\ [][RaceNext]_vars

(* the step is the slot's own *)
Steps(q) == pc'[q] # pc[q]

(* the INSERT of the slot's row is committed *)
Committed(q) == PriceInsert(q) /\ Len(price_history') = Len(price_history) + 1

(* C21: two queries for one key that both miss before either inserts both
   fetch and both insert; neither insert fails because of the other's row, each
   query yields the payload it fetched, and a later lookup in the window hits
   and selects a row with the greatest fetched_at *)
C21_DuplicateInsertsBenign ==
    [][ \A q \in Racers :
          /\ (pc[q] = "p_insert" /\ ~InsertRejected(api_data[q])) => ENABLED Committed(q)
          /\ (pc[q] = "p_insert" /\ Steps(q) /\ Len(price_history') = Len(price_history) + 1) =>
                /\ LastEvent(q)' = Event("price_result", api_data[q])
                /\ price_history' = Append(price_history, PriceRow(token[q], api_data[q], now))
          /\ (pc[q] = "p_lookup" /\ Steps(q) /\ PriceFreshIds(price_history, token[q], now) # {}) =>
                /\ pc'[q] = "y68"
                /\ Hit(q) =>
                      cached_result'[q] \in
                          LatestOf(price_history, PriceFreshIds(price_history, token[q], now))
      ]_vars

(* both queries missed, fetched different payloads and inserted them; a third
   query then hit one of the two rows *)
C21_Witness ==
    /\ Len(price_history) = 2
    /\ price_history[1].fetched_at = price_history[2].fetched_at
    /\ origin[1] # origin[2]
    /\ \E q \in Racers :
          /\ pc[q] = "returned"
          /\ fetched[q] = 0
          /\ cached_result[q] \in {1, 2}
          /\ Names(events[q]) = <<"intent_recognized", "status_update", "price_result", "done">>

---------------------------------------------------------------------------
(* A consumer that disconnects while the stream is running *)

(* where the generator is suspended between two resumptions: at a yield or at
   the asyncio.sleep that follows it; the cache functions and the fetchers run
   without an await *)
YieldPoints ==
    {"y41", "y46", "y48", "y49", "y53", "y55", "y56", "y60", "y61", "y65", "y68", "y72",
     "y75", "y78"}

(* mutant: the generator is abandoned wherever it is *)
Cancel_Anywhere(q) ==
    /\ pc[q] \notin {"idle", "returned", "cancelled"}
    /\ pc' = [pc EXCEPT ![q] = "cancelled"]
    /\ UNCHANGED <<dbVars, intent, token, events, conn, cur, cached_result, api_data,
                   fetched, started>>

(* the serving layer cancels the suspended generator: it is never resumed *)
Cancel(q) ==
    /\ pc[q] \in YieldPoints
    /\ pc' = [pc EXCEPT ![q] = "cancelled"]
    /\ UNCHANGED <<dbVars, intent, token, events, conn, cur, cached_result, api_data,
                   fetched, started>>

CancelNext ==
    \/ \E q \in DOMAIN pc, question \in Questions : Start(q, question, now)
          /\ UNCHANGED <<adapterVars, botVars>>
    \/ \E q \in DOMAIN pc : Dispatch(q)
          /\ UNCHANGED <<adapterVars, botVars>>
    \/ \E q \in DOMAIN pc : WalletResult(q)
          /\ UNCHANGED <<adapterVars, botVars>>
    \/ \E q \in DOMAIN pc : TokenListResult(q)
          /\ UNCHANGED <<adapterVars, botVars>>
    \/ \E q \in DOMAIN pc : Done49(q)
          /\ UNCHANGED <<adapterVars, botVars>>
    \/ \E q \in DOMAIN pc : Done56(q)
          /\ UNCHANGED <<adapterVars, botVars>>
    \/ \E q \in DOMAIN pc : Done61(q)
          /\ UNCHANGED <<adapterVars, botVars>>
    \/ \E q \in DOMAIN pc : Return(q)
          /\ UNCHANGED <<adapterVars, botVars>>
    \/ \E q \in DOMAIN pc : PriceConnect(q)
          /\ UNCHANGED <<adapterVars, botVars>>
    \/ \E q \in DOMAIN pc : PriceLookup(q)
          /\ UNCHANGED <<adapterVars, botVars>>
    \/ \E q \in DOMAIN pc : PriceFetch(q)
          /\ UNCHANGED <<adapterVars, botVars>>
    \/ \E q \in DOMAIN pc : PriceInsert(q)
          /\ UNCHANGED <<adapterVars, botVars>>
    \/ \E q \in DOMAIN pc : NewsStatus(q)
          /\ UNCHANGED <<adapterVars, botVars>>
    \/ \E q \in DOMAIN pc : NewsConnect(q)
          /\ UNCHANGED <<adapterVars, botVars>>
    \/ \E q \in DOMAIN pc : NewsLookup(q)
          /\ UNCHANGED <<adapterVars, botVars>>
    \/ \E q \in DOMAIN pc : NewsFetch(q)
          /\ UNCHANGED <<adapterVars, botVars>>
    \/ \E q \in DOMAIN pc : NewsInsert(q)
          /\ UNCHANGED <<adapterVars, botVars>>
    \/ \E q \in DOMAIN pc : Done78(q)
          /\ UNCHANGED <<adapterVars, botVars>>
    \/ \E q \in DOMAIN pc : Cancel(q)
          /\ UNCHANGED <<adapterVars, botVars>>

CancelSpec == Init /\ [][CancelNext]_vars

(* C27: once the consumer has disconnected, no fetch and no cache call is
   started for the query, and no cursor or connection of it is left open *)
C27_CancelStopsQuery ==
    [][ \A q \in Slots :
          /\ (pc[q] = "cancelled")' => (conn[q] # "open" /\ cur[q] # "open")'
          /\ pc[q] = "cancelled" =>
                /\ pc'[q] = "cancelled"
                /\ fetched'[q] = fetched[q]
                /\ events'[q] = events[q]
                /\ TablesKept
      ]_vars

(* cancelled between the price step and the news step of an overview *)
C27_Witness ==
    \E q \in Slots :
        /\ pc[q] = "cancelled"
        /\ intent[q] = "GET_OVERVIEW"
        /\ LastEvent(q).event = "price_result"
        /\ fetched[q] = 1
        /\ conn[q] = "closed"

---------------------------------------------------------------------------
(* Connections and committed rows of the cache functions *)

InCall == (StorageCalls \cup FetchCalls) \ {"y65", "y72"}

(* C29: a call of get_smart_token_price or get_smart_news that obtained a
   connection has closed its cursor and its connection when it returns: on a
   hit, after an insert, on an upstream error and after a rollback *)
C29_ConnectionsClosed ==
    [][ \A q \in Slots :
          /\ (pc[q] \in InCall /\ pc'[q] \notin InCall) =>
                (conn'[q] = "closed" /\ cur'[q] = "closed")
          /\ pc'[q] \notin InCall => (conn'[q] # "open" /\ cur'[q] # "open")
          /\ pc'[q] \in InCall => (conn'[q] = "open" /\ cur'[q] = "open")
      ]_vars

(* an upstream error was returned early from a call holding a connection *)
C29_Witness ==
    \E q \in Slots :
        /\ pc[q] = "y75"
        /\ LastEvent(q).event = "error"
        /\ LastEvent(q).data \in UpstreamErrors
        /\ conn[q] = "closed"
        /\ cur[q] = "closed"

(* C30: every price row the cache functions commit can be served back: a
   lookup that selects it within the window yields price_result, never an
   error *)
C30_CommittedRowsServable ==
    [][ \A q \in Slots :
          (pc[q] = "p_lookup" /\ Hit(q)) => LastEvent(q)'.event = "price_result"
      ]_vars

---------------------------------------------------------------------------
(* Rendering of a turn *)

(* the accumulated block before the i-th event of the turn *)
BlockBefore(i) == IF i = 1 THEN <<>> ELSE full_response[i - 1]

TurnRead == bpc = "idle" /\ user_message # <<>> /\ pc[1] = "returned"

EditsFollowBlock ==
    /\ \A k \in DOMAIN status_message :
          LET ed == status_message[k]
          IN  /\ ed.after \in DOMAIN full_response
              /\ ed.text # <<>>
              /\ ed.text = full_response[ed.after]
              /\ full_response[ed.after] # BlockBefore(ed.after)
              /\ k > 1 => ed.text # status_message[k - 1].text
    /\ \A i \in DOMAIN full_response :
          full_response[i] # BlockBefore(i) =>
              \E k \in DOMAIN status_message :
                  status_message[k].after = i /\ status_message[k].text = full_response[i]

(* C26: during a turn the message is re-rendered only when the accumulated
   content is non-empty and differs from the last render: an event that leaves
   the block as it was causes no edit, and after an event that changed it the
   rendered text is the block *)
C26_ThrottledEdits == TurnRead => EditsFollowBlock

Raised == \E k \in DOMAIN status_message : status_message[k].text[1].kind = "Unexpected error"

(* the same for the turns in which no event failed to format *)
C26_ThrottledUnlessRaised == (TurnRead /\ ~Raised) => EditsFollowBlock

ListEvents == {i \in DOMAIN events[1] : events[1][i].event = "token_list_result"}

(* C28: a token_list_result replaces the accumulated block, and once the
   message is rendered with the Show More control no later event of the turn
   renders it without: a listing of more than 20 tokens ends with the control *)
C28_ListReplacesAndKeepsControl ==
    (TurnRead /\ ListEvents # {}) =>
        LET i == CHOOSE j \in ListEvents : TRUE
            control == FirstPage(events[1][i].data.tokens).control
        IN  /\ full_response[i] = <<Line("token_list_result", i)>>
            /\ \E k \in DOMAIN status_message :
                  /\ status_message[k].after = i
                  /\ status_message[k].text = full_response[i]
            /\ \A k \in DOMAIN status_message :
                  status_message[k].after >= i => status_message[k].control = control
            /\ Len(events[1][i].data.tokens) > PageSize =>
                  status_message[Len(status_message)].control = PageSize

(* 45 tokens were listed: the status text was rendered first, then replaced
   by the list with its control, and done changed nothing *)
C28_Witness ==
    /\ TurnRead
    /\ ListEvents = {3}
    /\ Len(events[1][3].data.tokens) = 45
    /\ Len(status_message) = 2
    /\ status_message[1].text = <<Line("status_update", 2)>>
    /\ status_message[2].control = PageSize
    /\ Len(full_response) = 5

---------------------------------------------------------------------------
(* Two conversations served by one bot process.  The updates of all chats  *)
(* are handled one after the other (Application.builder().build() keeps    *)
(* the default, sequential processing), so a turn of one chat runs to its  *)
(* end before the next update is taken.                                    *)

Conversations == {1, 2}

ChatMessages ==
    { <<"bitcoin", " ", "price">>, <<"price", " ", "now">>, <<"list", " ", "tokens">>, <<" ">> }

(* the sessions sessions.json can hold when the process starts: none with a
   memory, or chat 2 remembering an earlier turn *)
stored_sessions ==
    { [c \in Conversations |-> new_session],
      [c \in Conversations |->
          IF c = 2
          THEN [last_token |-> "ethereum", last_intent |-> "GET_PRICE",
                history |-> << <<"ethereum", " ", "price">> >>]
          ELSE new_session] }

ChatsInit ==
    /\ ProducerIdle
    /\ AdapterIdle
    /\ SESSIONS \in stored_sessions
    /\ sessions_json = save_sessions(SESSIONS)
    /\ full_response = <<>>
    /\ status_message = <<>>
    /\ bot_data = <<>>
    /\ pages = [c \in Conversations |-> <<>>]
    /\ user_message_raw = <<>>
    /\ user_message = <<>>
    /\ chat_id = 1
    /\ bpc = "idle"

(* telegram_bot.py lines 28-29, 69 and 366-380: the process is started again
   between two updates; SESSIONS is read from sessions.json and the
   application starts with an empty bot_data *)
restart ==
    /\ bpc = "idle"
    /\ SESSIONS' = read_sessions(sessions_json)
    /\ bot_data' = <<>>
    /\ UNCHANGED <<pages, user_message_raw, user_message, chat_id, bpc, sessions_json,
                   full_response, status_message, producerVars, adapterVars>>

ChatsNext ==
    \/ \E c \in Conversations, text \in ChatMessages : handle_message(c, text)
    \/ handle_message_refused
    \/ handle_message_events
    \/ \E c \in Conversations : button_callback(c)
    \/ \E c \in Conversations : reset_command(c)
    \/ restart
    \/ \E q \in DOMAIN pc : Dispatch(q)
          /\ UNCHANGED <<adapterVars, botVars>>
    \/ \E q \in DOMAIN pc : TokenListResult(q)
          /\ UNCHANGED <<adapterVars, botVars>>
    \/ \E q \in DOMAIN pc : Done56(q)
          /\ UNCHANGED <<adapterVars, botVars>>
    \/ \E q \in DOMAIN pc : Done61(q)
          /\ UNCHANGED <<adapterVars, botVars>>
    \/ \E q \in DOMAIN pc : Return(q)
          /\ UNCHANGED <<adapterVars, botVars>>
    \/ \E q \in DOMAIN pc : PriceConnect(q)
          /\ UNCHANGED <<adapterVars, botVars>>
    \/ \E q \in DOMAIN pc : PriceLookup(q)
          /\ UNCHANGED <<adapterVars, botVars>>
    \/ \E q \in DOMAIN pc : PriceFetch(q)
          /\ UNCHANGED <<adapterVars, botVars>>
    \/ \E q \in DOMAIN pc : PriceInsert(q)
          /\ UNCHANGED <<adapterVars, botVars>>
    \/ \E q \in DOMAIN pc : Done78(q)
          /\ UNCHANGED <<adapterVars, botVars>>

ChatsSpec == ChatsInit /\ [][ChatsNext]_vars

---------------------------------------------------------------------------
(* Properties of two conversations on one bot process *)

(* the step in which handle_message has read the stream of the turn *)
EventsRead == bpc = "streaming" /\ bpc' = "idle" /\ user_message # <<>>

(* the control of the last page shown in conversation a *)
PendingControl(a) == pages[a][Len(pages[a])].control

(* C22 as stated: the list kept for Show More is the conversation's own, so
   a turn of another conversation, whatever token_list_result it receives,
   leaves unchanged the page a Show More press in conversation a renders *)
C22_ListKeyedByConversation ==
    [][ \A a \in Conversations :
          (EventsRead /\ chat_id # a /\ pages[a] # <<>> /\ PendingControl(a) # None) =>
              NextPage(bot_data', PendingControl(a)) = NextPage(bot_data, PendingControl(a))
      ]_vars

(* C23: a step changes the session of at most the conversation it serves:
   a turn or the events read in conversation a, and a reset of a, leave the
   last_token, last_intent and history of every other conversation as they
   were; the prompt of a turn in conversation b is built from b's own
   last_token, so with none remembered in b the text is sent unprefixed
   whatever the other conversations remember *)
C23_SessionsIndependent ==
    [][ \A a \in Conversations : \A b \in Conversations \ {a} :
          /\ SESSIONS'[a] # SESSIONS[a] => SESSIONS'[b] = SESSIONS[b]
          /\ (TurnArrives /\ chat_id' = a) => SESSIONS'[b] = SESSIONS[b]
          /\ (EventsRead /\ chat_id = a) => SESSIONS'[b] = SESSIONS[b]
          /\ (TurnArrives /\ chat_id' = b) =>
                LET msg == Strip(user_message_raw')
                IN  /\ SESSIONS[b].last_token = NoneStr => user_message' = msg
                    /\ user_message' # msg =>
                          user_message' = <<SESSIONS[b].last_token, " ">> \o msg
      ]_vars

(* conversation 1 remembers bitcoin, conversation 2 remembers nothing and
   its trigger phrase went out as it was typed *)
C23_Witness ==
    /\ bpc = "streaming"
    /\ chat_id = 2
    /\ SESSIONS[1].last_token = "bitcoin"
    /\ SESSIONS[2].last_token = NoneStr
    /\ user_message_raw = <<"price", " ", "now">>
    /\ user_message = <<"price", " ", "now">>

(* C24: every handler that changes a session writes sessions.json before it
   ends or awaits the next event, so at every point the file read back is
   the sessions in memory, and a restart between turns starts from them *)
C24_StoreFollowsSessions ==
    /\ read_sessions(sessions_json) = SESSIONS
    /\ DOMAIN sessions_json = {ToString(c) : c \in Conversations}

(* the process was restarted after turns that left a memory, a history and
   a token list message with a pending Show More *)
C24_Witness ==
    /\ bpc = "idle"
    /\ bot_data = <<>>
    /\ \E c \in Conversations :
          /\ pages[c] # <<>>
          /\ PendingControl(c) # None
          /\ Len(SESSIONS[c].history) = 2
          /\ SESSIONS[c].last_token = "bitcoin"

(* C25: a remembered subject is cleared only by /reset; when the events of
   a turn are read, last_token becomes the observed subject if there is one
   and stays otherwise, and no other step changes it, so it is the latest
   non-empty subject observed since the last reset; that value is what a
   trigger-phrase turn is prefixed with *)
C25_ContextualUntilReset ==
    [][ \A c \in Conversations :
          LET old == SESSIONS[c].last_token
              new == SESSIONS'[c].last_token
          IN  /\ (old # NoneStr /\ new = NoneStr) =>
                    /\ bpc = "idle" /\ bpc' = "idle"
                    /\ SESSIONS'[c] = new_session
              /\ (EventsRead /\ chat_id = c) =>
                    new = IF Observed.token # NoneStr THEN Observed.token ELSE old
              /\ ~(EventsRead /\ chat_id = c) => new \in {old, NoneStr}
              /\ (TurnArrives /\ chat_id' = c /\ old # NoneStr
                    /\ LowerText(Strip(user_message_raw')) \in TRIGGER_WORDS) =>
                    user_message' = <<old, " ">> \o Strip(user_message_raw')
      ]_vars

(* conversation 2 started out remembering ethereum, then observed bitcoin,
   and its next trigger phrase is prefixed with bitcoin *)
C25_Witness ==
    /\ bpc = "streaming"
    /\ chat_id = 2
    /\ SESSIONS[2].history[1] = <<"ethereum", " ", "price">>
    /\ SESSIONS[2].last_token = "bitcoin"
    /\ user_message = <<"bitcoin", " ", "price", " ", "now">>

====
